---- MODULE Spec2Model ----
(***************************************************************************)
(* Model of the Monte Carlo portfolio engine of Portfolio_platform         *)
(* (main.py: terminal-price simulator, portfolio summary; app.py: path     *)
(* simulator, percentile bands, dashboard simulation cache).               *)
(*                                                                         *)
(* Numbers.  Python floats are modelled as exact reals of the form         *)
(*     sum_i  c_i * exp(a_i/5040000 + b_i*sqrt(1/252)/100)                 *)
(* with rational coefficients c_i = <<num, den>> and integer exponent      *)
(* pairs <<a_i, b_i>>.  Percentages (return_pct, sigma) are integers, so   *)
(*   (mu - 0.5*sigma^2)*dt   = (200*return_pct - sigma^2) / 5040000        *)
(*   sigma*sqrt(dt)*z        = (sigma*z) * sqrt(1/252)/100                 *)
(* are exact.  Exponentials of distinct algebraic numbers are linearly     *)
(* independent, so equality of two such sums is equality of the reals.     *)
(* The global numpy generator is a small congruential generator; a missing *)
(* seed (None) is written NoSeed.                                          *)
(***************************************************************************)
EXTENDS Integers, Sequences, FiniteSets, TLC

VARIABLES rng, sim, gbm, hist, closes, buys, valued, session, widgets

vars == <<rng, sim, gbm, hist, closes, buys, valued, session, widgets>>

(* ---------------------------------------------------------------- bounds *)
MaxDays == 3
MaxLongDays == 61
MaxCheckDays == 210
MaxSims == 2
MaxRows == 3
MaxCalls == 3
MaxScriptRuns == 4
MaxWatch == 3
MaxAdd == 3
RngMod == 7

NoSeed == -1
Tickers == {"A", "B"}

(* ------------------------------------------------------------ rationals *)
Abs(x) == IF x < 0 THEN -x ELSE x

Min(a, b) == IF a <= b THEN a ELSE b

Max(a, b) == IF a >= b THEN a ELSE b

RECURSIVE GCD(_, _)
GCD(a, b) == IF b = 0 THEN a ELSE GCD(b, a % b)

Rat(n, d) == LET m == IF d < 0 THEN -n ELSE n
                 e == Abs(d)
                 g == GCD(Abs(m), e)
             IN  <<m \div g, e \div g>>

R0 == <<0, 1>>

RInt(n) == <<n, 1>>

RAdd(x, y) == Rat(x[1] * y[2] + y[1] * x[2], x[2] * y[2])

RMul(x, y) == Rat(x[1] * y[1], x[2] * y[2])

RDiv(x, y) == Rat(x[1] * y[2], x[2] * y[1])

RLeq(x, y) == x[1] * y[2] <= y[1] * x[2]

(* ------------------------------------------ reals: sums of c * exp(e) *)
E0 == <<0, 0>>

EAdd(e, f) == <<e[1] + f[1], e[2] + f[2]>>

ENeg(e) == <<0 - e[1], 0 - e[2]>>

XZero == [e \in {} |-> R0]

XMono(c, e) == IF c = R0 THEN XZero ELSE [k \in {e} |-> c]

XNum(n) == XMono(RInt(n), E0)

XAdd(x, y) ==
    LET D == DOMAIN x \cup DOMAIN y
        s(e) == RAdd(IF e \in DOMAIN x THEN x[e] ELSE R0,
                     IF e \in DOMAIN y THEN y[e] ELSE R0)
    IN  [e \in {k \in D : s(k) # R0} |-> s(e)]

XMulMono(x, c, f) ==
    IF c = R0 THEN XZero
    ELSE [k \in {EAdd(e, f) : e \in DOMAIN x} |-> RMul(x[EAdd(k, ENeg(f))], c)]

(* ------------------------------------------------------ numpy generator *)
SeedState(seed) == seed % RngMod

ReseedNever(g, random_seed) == g

(* if random_seed is not None: np.random.seed(random_seed) *)
Reseed(g, random_seed) == IF random_seed # NoSeed THEN SeedState(random_seed) ELSE g

Advance(g) == (3 * g + 1) % RngMod

Normal(g) == (g % 3) - 1

(* the element of a singleton: binds the result of a call to one name *)
The(S) == CHOOSE x \in S : TRUE

(* None *)
PyNone == << >>

(* d[k] = v on a dict *)
Put(f, k, v) == [x \in DOMAIN f \cup {k} |-> IF x = k THEN v ELSE f[x]]

(* ----------------------------------------------------------- data model *)
Position(t, v, r, p) == [ticker |-> t, value |-> v, return_pct |-> r, current_price |-> p]

shares(pos) == IF pos.current_price > 0
               THEN XMono(Rat(pos.value, pos.current_price), E0)
               ELSE XZero

TickersOf(positions) == {positions[i].ticker : i \in DOMAIN positions}

FirstIdx(positions, t) ==
    CHOOSE i \in DOMAIN positions :
        /\ positions[i].ticker = t
        /\ \A j \in DOMAIN positions : positions[j].ticker = t => i <= j

LastIdx(positions, t) ==
    CHOOSE i \in DOMAIN positions :
        /\ positions[i].ticker = t
        /\ \A j \in DOMAIN positions : positions[j].ticker = t => j <= i

RECURSIVE SumValue(_)
SumValue(positions) ==
    IF positions = << >> THEN 0 ELSE Head(positions).value + SumValue(Tail(positions))

(* --------------------------------------------------------- path simulator *)
(* Frame of _simulate_portfolio_growth_over_time_internal; pc is the       *)
(* position in the function, blk the block of the day-loop body; draws is  *)
(* the history of the calls of np.random.normal made by the invocation,    *)
(* day_values the history of total_value, day by day, of the current path. *)
NoFrame ==
    [pc |-> "idle", positions |-> << >>, sigma |-> 0, days |-> 0, n_sims |-> 0,
     random_seed |-> NoSeed, dca_schedule |-> << >>,
     drift_constants |-> << >>, diffusion_stds |-> << >>,
     time_points |-> << >>, portfolio_paths |-> << >>,
     position_shares |-> << >>, sim_idx |-> 0,
     portfolio_value_over_time |-> << >>, cumulative_log_returns |-> << >>,
     current_shares |-> << >>, day |-> 0, total_value |-> XZero, blk |-> 0,
     draws |-> << >>, day_values |-> << >>]

DriftConstant(return_pct, sigma) == <<200 * return_pct - sigma * sigma, 0>>

DiffusionStdNoSigma(sigma) == <<0, 1>>

DiffusionStd(sigma) == <<0, sigma>>

LogReturn(drift, diffusion_std, increment) ==
    EAdd(drift, <<diffusion_std[1] * increment, diffusion_std[2] * increment>>)

SampleInterval(days) == Max(1, days \div 50)

Range0(stop, step) ==
    IF stop <= 0 THEN << >>
    ELSE [i \in 1..((stop + step - 1) \div step) |-> (i - 1) * step]

TimePointsAlwaysAppend(days) ==
    Append(Range0(days + 1, SampleInterval(days)), days)

(* lines 263-267 *)
TimePoints(days) ==
    LET r == Range0(days + 1, SampleInterval(days))
    IN  IF r[Len(r)] # days THEN Append(r, days) ELSE r

DayBlocksPriceFirst == <<"price", "dca", "record">>

DayBlocks == <<"dca", "price", "record">>

(* lines 247-273: conversion, seeding, constants, checkpoints, zero table *)
SimSetup(in, g) ==
    LET positions == in.positions_data
        g1 == Reseed(g, in.random_seed)
        base == [NoFrame EXCEPT !.positions = positions, !.sigma = in.sigma,
                                !.days = in.days, !.n_sims = in.n_sims,
                                !.random_seed = in.random_seed,
                                !.dca_schedule = in.dca_schedule,
                                !.drift_constants =
                                    [t \in TickersOf(positions) |->
                                        DriftConstant(positions[LastIdx(positions, t)].return_pct,
                                                      in.sigma)],
                                !.diffusion_stds =
                                    [t \in TickersOf(positions) |-> DiffusionStd(in.sigma)]]
    IN  IF in.days < 0
        THEN [s |-> [base EXCEPT !.pc = "raised"], g |-> g1]
        ELSE LET tp == TimePoints(in.days)
             IN  [s |-> [base EXCEPT
                            !.pc = "path",
                            !.time_points = tp,
                            !.portfolio_paths =
                                [i \in 1..in.n_sims |-> [k \in 1..Len(tp) |-> XZero]],
                            !.position_shares =
                                [t \in TickersOf(positions) |->
                                    shares(positions[LastIdx(positions, t)])]],
                  g |-> g1]

PathStartOpCarry(s) ==
    IF s.sim_idx >= s.n_sims
    THEN [s EXCEPT !.pc = "return"]
    ELSE [s EXCEPT
            !.portfolio_value_over_time = <<XNum(SumValue(s.positions))>>,
            !.cumulative_log_returns =
                IF s.sim_idx = 0 THEN [t \in TickersOf(s.positions) |-> E0] ELSE @,
            !.current_shares = IF s.sim_idx = 0 THEN s.position_shares ELSE @,
            !.day_values = << >>,
            !.day = 1,
            !.total_value = XZero,
            !.blk = 1,
            !.pc = IF s.days >= 1 THEN "day" ELSE "pathend"]

(* lines 275-284: loop head; a new path resets its running state *)
PathStartOp(s) ==
    IF s.sim_idx >= s.n_sims
    THEN [s EXCEPT !.pc = "return"]
    ELSE [s EXCEPT
            !.portfolio_value_over_time = <<XNum(SumValue(s.positions))>>,
            !.cumulative_log_returns = [t \in TickersOf(s.positions) |-> E0],
            !.current_shares = s.position_shares,
            !.day_values = << >>,
            !.day = 1,
            !.total_value = XZero,
            !.blk = 1,
            !.pc = IF s.days >= 1 THEN "day" ELSE "pathend"]

NextBlock(s) ==
    IF s.blk < Len(DayBlocks)
    THEN [s EXCEPT !.blk = s.blk + 1]
    ELSE IF s.day + 1 <= s.days
         THEN [s EXCEPT !.day = s.day + 1, !.blk = 1, !.total_value = XZero]
         ELSE [s EXCEPT !.pc = "pathend"]

DcaDueEveryDay(s, t) ==
    /\ t \in DOMAIN s.dca_schedule
    /\ t \in TickersOf(s.positions)

(* lines 289-297: shares bought for ticker t on s.day *)
DcaDue(s, t) ==
    /\ t \in DOMAIN s.dca_schedule
    /\ s.dca_schedule[t].frequency_days # 0
    /\ s.day % s.dca_schedule[t].frequency_days = 0
    /\ t \in TickersOf(s.positions)

shares_to_add(s, t) ==
    LET pos == s.positions[FirstIdx(s.positions, t)]
    IN  IF pos.current_price > 0
        THEN XMono(Rat(s.dca_schedule[t].amount, pos.current_price),
                   ENeg(s.cumulative_log_returns[t]))
        ELSE XZero

DcaOpNoLookup(s) ==
    IF \E t \in DOMAIN s.dca_schedule :
          s.dca_schedule[t].frequency_days = 0 \/ t \notin TickersOf(s.positions)
    THEN [s EXCEPT !.pc = "raised"]
    ELSE NextBlock([s EXCEPT
            !.current_shares =
                [t \in DOMAIN s.current_shares |->
                    IF DcaDue(s, t)
                    THEN XAdd(s.current_shares[t], shares_to_add(s, t))
                    ELSE s.current_shares[t]]])

DcaOpAssign(s) ==
    IF \E t \in DOMAIN s.dca_schedule : s.dca_schedule[t].frequency_days = 0
    THEN [s EXCEPT !.pc = "raised"]
    ELSE NextBlock([s EXCEPT
            !.current_shares =
                [t \in DOMAIN s.current_shares |->
                    IF DcaDue(s, t) THEN shares_to_add(s, t) ELSE s.current_shares[t]]])

DcaOpSubtract(s) ==
    IF \E t \in DOMAIN s.dca_schedule : s.dca_schedule[t].frequency_days = 0
    THEN [s EXCEPT !.pc = "raised"]
    ELSE NextBlock([s EXCEPT
            !.current_shares =
                [t \in DOMAIN s.current_shares |->
                    IF DcaDue(s, t)
                    THEN XAdd(s.current_shares[t],
                              XMulMono(shares_to_add(s, t), RInt(-1), E0))
                    ELSE s.current_shares[t]]])

(* lines 287-298 *)
DcaOp(s) ==
    IF \E t \in DOMAIN s.dca_schedule : s.dca_schedule[t].frequency_days = 0
    THEN [s EXCEPT !.pc = "raised"]
    ELSE NextBlock([s EXCEPT
            !.current_shares =
                [t \in DOMAIN s.current_shares |->
                    IF DcaDue(s, t)
                    THEN XAdd(s.current_shares[t], shares_to_add(s, t))
                    ELSE s.current_shares[t]]])

Draw(s, i, g) == [sim_idx |-> s.sim_idx, day |-> s.day, pos |-> i, g |-> g]

RECURSIVE PriceLoopSharedDraw(_, _, _, _, _)
PriceLoopSharedDraw(s, i, cum, total, g) ==
    IF i > Len(s.positions)
    THEN [cum |-> cum, total |-> total, g |-> g, draws |-> s.draws]
    ELSE LET pos == s.positions[i]
             t == pos.ticker
             increment == Normal(g)
             daily_log_return ==
                 LogReturn(s.drift_constants[t], s.diffusion_stds[t], increment)
             c2 == [cum EXCEPT ![t] = EAdd(cum[t], daily_log_return)]
         IN  PriceLoopSharedDraw([s EXCEPT !.draws = Append(@, Draw(s, i, g))], i + 1, c2,
                                 XAdd(total, XMulMono(s.current_shares[t],
                                                      RInt(pos.current_price), c2[t])),
                                 IF i = Len(s.positions) THEN Advance(g) ELSE g)

(* lines 301-310: one draw per position, in list order *)
RECURSIVE PriceLoop(_, _, _, _, _)
PriceLoop(s, i, cum, total, g) ==
    IF i > Len(s.positions)
    THEN [cum |-> cum, total |-> total, g |-> g, draws |-> s.draws]
    ELSE LET pos == s.positions[i]
             t == pos.ticker
             increment == Normal(g)
             daily_log_return ==
                 LogReturn(s.drift_constants[t], s.diffusion_stds[t], increment)
             c2 == [cum EXCEPT ![t] = EAdd(cum[t], daily_log_return)]
         IN  PriceLoop([s EXCEPT !.draws = Append(@, Draw(s, i, g))], i + 1, c2,
                       XAdd(total, XMulMono(s.current_shares[t],
                                            RInt(pos.current_price), c2[t])),
                       Advance(g))

PriceOp(s, g) ==
    LET r == PriceLoop(s, 1, s.cumulative_log_returns, s.total_value, g)
    IN  [s |-> NextBlock([s EXCEPT !.cumulative_log_returns = r.cum,
                                   !.total_value = r.total,
                                   !.draws = r.draws,
                                   !.day_values = Append(@, r.total)]),
         g |-> r.g]

RecordOpEveryDay(s) ==
    NextBlock([s EXCEPT !.portfolio_value_over_time = Append(@, s.total_value)])

(* lines 312-314 *)
RecordOp(s) ==
    NextBlock(
        IF \E k \in 2..Len(s.time_points) : s.time_points[k] = s.day
        THEN [s EXCEPT !.portfolio_value_over_time = Append(@, s.total_value)]
        ELSE s)

(* line 316: the row assignment needs one value per checkpoint *)
PathEndOp(s) ==
    IF Len(s.portfolio_value_over_time) # Len(s.time_points)
    THEN [s EXCEPT !.pc = "raised"]
    ELSE [s EXCEPT
            !.portfolio_paths = [@ EXCEPT ![s.sim_idx + 1] = s.portfolio_value_over_time],
            !.sim_idx = s.sim_idx + 1,
            !.pc = "path"]

(* one step of the running function *)
SimStep(s, g) ==
    CASE s.pc = "path" -> [s |-> PathStartOp(s), g |-> g]
      [] s.pc = "day" /\ DayBlocks[s.blk] = "dca" -> [s |-> DcaOp(s), g |-> g]
      [] s.pc = "day" /\ DayBlocks[s.blk] = "price" -> PriceOp(s, g)
      [] s.pc = "day" /\ DayBlocks[s.blk] = "record" -> [s |-> RecordOp(s), g |-> g]
      [] s.pc = "pathend" -> [s |-> PathEndOp(s), g |-> g]

RECURSIVE SimRun(_, _)
SimRun(s, g) ==
    IF s.pc \in {"return", "raised"} THEN [s |-> s, g |-> g]
    ELSE LET r == SimStep(s, g) IN SimRun(r.s, r.g)

(* the whole call: result, or "raised", and the generator it leaves *)
SimResult(s) ==
    IF s.pc = "raised" THEN [raised |-> TRUE, paths |-> << >>, time_points |-> << >>]
    ELSE [raised |-> FALSE, paths |-> s.portfolio_paths, time_points |-> s.time_points]

SimulateInternal(in, g) ==
    LET r0 == SimSetup(in, g)
        r == SimRun(r0.s, r0.g)
    IN  [res |-> SimResult(r.s), g |-> r.g]

(* ------------------------------------------------ terminal-price simulator *)
NoGbm ==
    [pc |-> "idle", current_price |-> 0, mu |-> 0, sigma |-> 0, days |-> 0,
     n_sims |-> 0, random_seed |-> NoSeed, drift |-> E0, diffusion_std |-> E0,
     prices_end |-> << >>, i |-> 0]

(* an element of np.empty that was never written *)
Uninit == [k \in {E0} |-> <<0, 0>>]

(* main.py 97-105 *)
GbmSetup(in, g) ==
    [s |-> [NoGbm EXCEPT
              !.pc = "loop", !.current_price = in.current_price, !.mu = in.mu,
              !.sigma = in.sigma, !.days = in.days, !.n_sims = in.n_sims,
              !.random_seed = in.random_seed,
              !.drift = DriftConstant(in.mu, in.sigma),
              !.diffusion_std = DiffusionStd(in.sigma),
              !.prices_end = [k \in 1..in.n_sims |-> Uninit]],
     g |-> Reseed(g, in.random_seed)]

RECURSIVE LogReturnsSumOneMore(_, _, _, _)
LogReturnsSumOneMore(s, n, acc, g) ==
    IF n < 0 THEN [sum |-> acc, g |-> g]
    ELSE LogReturnsSumOneMore(s, n - 1,
                              EAdd(acc, LogReturn(s.drift, s.diffusion_std, Normal(g))),
                              Advance(g))

(* np.random.normal(size=n): n draws, summed term by term below *)
RECURSIVE LogReturnsSum(_, _, _, _)
LogReturnsSum(s, n, acc, g) ==
    IF n <= 0 THEN [sum |-> acc, g |-> g]
    ELSE LogReturnsSum(s, n - 1,
                       EAdd(acc, LogReturn(s.drift, s.diffusion_std, Normal(g))),
                       Advance(g))

GbmIterReseed(s, g) ==
    IF s.i >= s.n_sims THEN [s |-> [s EXCEPT !.pc = "return"], g |-> g]
    ELSE IF s.days < 0 THEN [s |-> [s EXCEPT !.pc = "raised"], g |-> g]
    ELSE LET r == LogReturnsSum(s, s.days, E0, Reseed(g, s.random_seed))
             price == XMono(RInt(s.current_price), r.sum)
         IN  [s |-> [s EXCEPT !.prices_end = [@ EXCEPT ![s.i + 1] = price],
                              !.i = s.i + 1],
              g |-> r.g]

GbmIterSilent(s, g) ==
    IF s.i >= s.n_sims THEN [s |-> [s EXCEPT !.pc = "return"], g |-> g]
    ELSE LET r == LogReturnsSum(s, s.days, E0, g)
             price == XMono(RInt(s.current_price), r.sum)
         IN  [s |-> [s EXCEPT !.prices_end = [@ EXCEPT ![s.i + 1] = price],
                              !.i = s.i + 1],
              g |-> r.g]

(* main.py 106-112: one iteration of the path loop *)
GbmIter(s, g) ==
    IF s.i >= s.n_sims THEN [s |-> [s EXCEPT !.pc = "return"], g |-> g]
    ELSE IF s.days < 0 THEN [s |-> [s EXCEPT !.pc = "raised"], g |-> g]
    ELSE LET r == LogReturnsSum(s, s.days, E0, g)
             price == XMono(RInt(s.current_price), r.sum)
         IN  [s |-> [s EXCEPT !.prices_end = [@ EXCEPT ![s.i + 1] = price],
                              !.i = s.i + 1],
              g |-> r.g]

GbmResult(s) ==
    IF s.pc = "raised" THEN [raised |-> TRUE, prices_end |-> << >>]
    ELSE [raised |-> FALSE, prices_end |-> s.prices_end]

RECURSIVE GbmRun(_, _)
GbmRun(s, g) ==
    IF s.pc \in {"return", "raised"} THEN [s |-> s, g |-> g]
    ELSE LET r == GbmIter(s, g) IN GbmRun(r.s, r.g)

simulate_gbm_price(in, g) ==
    LET r0 == GbmSetup(in, g)
        r == GbmRun(r0.s, r0.g)
    IN  [res |-> GbmResult(r.s), g |-> r.g]

(* ------------------------------------------------------ portfolio summary *)
RECURSIVE SumReturnValue(_)
SumReturnValue(positions) ==
    IF positions = << >> THEN R0
    ELSE RAdd(Rat(Head(positions).value * Head(positions).return_pct, 100),
              SumReturnValue(Tail(positions)))

portfolio_summary_unguarded(in) ==
    LET total_value == SumValue(in.positions)
        second == IF in.one_shot THEN << >> ELSE in.positions
    IN  IF total_value = 0
        THEN [raised |-> TRUE, total_value |-> total_value, weighted_return_pct |-> R0]
        ELSE [raised |-> FALSE, total_value |-> total_value,
              weighted_return_pct |->
                  RMul(RDiv(SumReturnValue(second), RInt(total_value)), RInt(100))]

(* main.py 125-133; a one-shot iterator is exhausted by the first sum *)
portfolio_summary(in) ==
    LET total_value == SumValue(in.positions)
        second == IF in.one_shot THEN << >> ELSE in.positions
        total_return_value == SumReturnValue(second)
        weighted_return_pct ==
            IF total_value > 0
            THEN RMul(RDiv(total_return_value, RInt(total_value)), RInt(100))
            ELSE R0
    IN  [raised |-> FALSE, total_value |-> total_value,
         weighted_return_pct |-> weighted_return_pct]

(* ------------------------------------------------------- watchlist ranker *)
compute_mu_unbounded(today_return_pct) == today_return_pct * 2

(* main.py 245-247; the result is in percent, so the bounds are 20 and -5 *)
compute_mu_from_today_return(today_return_pct) == Max(Min(today_return_pct * 2, 20), -5)

WatchItem(t, p, r) == [ticker |-> t, current_price |-> p, today_return_pct |-> r]

RECURSIVE XSum(_)
XSum(xs) == IF xs = << >> THEN XZero ELSE XAdd(Head(xs), XSum(Tail(xs)))

(* float(prices_end.mean()) *)
Mean(prices_end) == XMulMono(XSum(prices_end), Rat(1, Len(prices_end)), E0)

ExpectedReturnPctUnguarded(expected_price, current_price) ==
    XAdd(XMulMono(expected_price,
                  Rat(100, IF current_price > 0 THEN current_price ELSE 1), E0),
         XNum(-100))

(* main.py 168-170, 283-285 *)
ExpectedReturnPct(expected_price, current_price) ==
    IF current_price > 0
    THEN XAdd(XMulMono(expected_price, Rat(100, current_price), E0), XNum(-100))
    ELSE XZero

(* e <= f as reals a/5040000 + b*sqrt(1/252)/100; (50400^2)/252 = 10080000 *)
ExpLeq(e, f) ==
    LET da == f[1] - e[1]
        db == f[2] - e[2]
    IN  IF da >= 0 /\ db >= 0 THEN TRUE
        ELSE IF da <= 0 /\ db <= 0 THEN FALSE
        ELSE IF da > 0 THEN (da * da) \div 10080000 >= db * db
        ELSE db * db >= (da * da + 10080000 - 1) \div 10080000

(* the exponent e of a return 100*(exp(e) - 1) *)
ReturnExp(x) == IF x = XZero THEN E0 ELSE CHOOSE e \in DOMAIN x : e # E0

(* x[1] of two result tuples compared as floats *)
KeyLeq(x, y) == ExpLeq(ReturnExp(x[2]), ReturnExp(y[2]))

ReverseSeq(s) == [i \in 1..Len(s) |-> s[Len(s) + 1 - i]]

(* x goes behind every element whose key is not greater: a stable insert *)
RECURSIVE InsertAsc(_, _)
InsertAsc(s, x) ==
    IF s = << >> THEN <<x>>
    ELSE IF KeyLeq(s[Len(s)], x) THEN Append(s, x)
    ELSE Append(InsertAsc(SubSeq(s, 1, Len(s) - 1), x), s[Len(s)])

RECURSIVE SortAsc(_)
SortAsc(s) ==
    IF s = << >> THEN << >>
    ELSE InsertAsc(SortAsc(SubSeq(s, 1, Len(s) - 1)), s[Len(s)])

SortByReturnAsc(results) == SortAsc(results)

(* results.sort(key=lambda x: x[1], reverse=True): list.sort reverses the  *)
(* list, sorts it stably in ascending order and reverses it again         *)
SortByReturn(results) == ReverseSeq(SortAsc(ReverseSeq(results)))

(* main.py 272-286: one item of the loop *)
WatchEntry(item, in, g) ==
    The({[raised |-> r.res.raised, g |-> r.g,
          entry |-> IF r.res.raised THEN << >>
                    ELSE <<item.ticker,
                           ExpectedReturnPct(Mean(r.res.prices_end), item.current_price),
                           Mean(r.res.prices_end)>>] :
         r \in {simulate_gbm_price(
                    [current_price |-> item.current_price,
                     mu |-> compute_mu_from_today_return(item.today_return_pct),
                     sigma |-> in.sigma, days |-> in.days, n_sims |-> in.n_sims,
                     random_seed |-> in.random_seed], g)}})

RECURSIVE WatchLoop(_, _, _, _)
WatchLoop(items, in, results, g) ==
    IF items = << >> THEN [raised |-> FALSE, results |-> results, g |-> g]
    ELSE The({IF e.raised THEN [raised |-> TRUE, results |-> << >>, g |-> e.g]
              ELSE WatchLoop(Tail(items), in, Append(results, e.entry), e.g) :
              e \in {WatchEntry(Head(items), in, g)}})

(* main.py 271-289 *)
analyse_watchlist(in, g) ==
    The({[res |-> [raised |-> r.raised, results |-> SortByReturn(r.results)], g |-> r.g] :
         r \in {WatchLoop(in.watchlist, in, << >>, g)}})

WatchGetDefault(watchlist_map, ticker) ==
    IF ticker \in DOMAIN watchlist_map THEN watchlist_map[ticker]
    ELSE WatchItem(ticker, 1, 0)

(* watchlist_map.get(ticker): None for a ticker that is not a key *)
WatchGet(watchlist_map, ticker) ==
    IF ticker \in DOMAIN watchlist_map THEN watchlist_map[ticker] ELSE PyNone

RECURSIVE AddLoopOnce(_, _, _, _)
AddLoopOnce(new_positions, watchlist_map, tickers_to_add, allocation_value) ==
    IF tickers_to_add = << >> THEN new_positions
    ELSE LET item == WatchGet(watchlist_map, Head(tickers_to_add))
         IN  AddLoopOnce(IF item = PyNone \/ item.ticker \in TickersOf(new_positions)
                         THEN new_positions
                         ELSE Append(new_positions,
                                     Position(item.ticker, allocation_value, 0,
                                              item.current_price)),
                         watchlist_map, Tail(tickers_to_add), allocation_value)

(* main.py 313-325 *)
RECURSIVE AddLoop(_, _, _, _)
AddLoop(new_positions, watchlist_map, tickers_to_add, allocation_value) ==
    IF tickers_to_add = << >> THEN new_positions
    ELSE LET item == WatchGet(watchlist_map, Head(tickers_to_add))
         IN  AddLoop(IF item = PyNone THEN new_positions
                     ELSE Append(new_positions,
                                 Position(item.ticker, allocation_value, 0,
                                          item.current_price)),
                     watchlist_map, Tail(tickers_to_add), allocation_value)

(* main.py 312-326: the loop works on a copy, the argument list object is  *)
(* returned as the call left it                                            *)
add_positions(in) ==
    [raised |-> FALSE,
     current_positions |-> in.current_positions,
     new_positions |-> AddLoop(in.current_positions, in.watchlist_map,
                               in.tickers_to_add, in.allocation_value)]

(* ----------------------------------------------------- portfolio analysis *)
predict_position_unseeded(position, in, g) ==
    The({[raised |-> r.res.raised, g |-> r.g,
          expected_price |-> IF r.res.raised THEN XZero ELSE Mean(r.res.prices_end),
          expected_return_pct |->
              IF r.res.raised THEN XZero
              ELSE ExpectedReturnPct(Mean(r.res.prices_end), position.current_price)] :
         r \in {simulate_gbm_price(
                    [current_price |-> position.current_price,
                     mu |-> position.return_pct,
                     sigma |-> in.sigma, days |-> in.days, n_sims |-> in.n_sims,
                     random_seed |-> NoSeed], g)}})

(* main.py 158-174 *)
predict_position(position, in, g) ==
    The({[raised |-> r.res.raised, g |-> r.g,
          expected_price |-> IF r.res.raised THEN XZero ELSE Mean(r.res.prices_end),
          expected_return_pct |->
              IF r.res.raised THEN XZero
              ELSE ExpectedReturnPct(Mean(r.res.prices_end), position.current_price)] :
         r \in {simulate_gbm_price(
                    [current_price |-> position.current_price,
                     mu |-> position.return_pct,
                     sigma |-> in.sigma, days |-> in.days, n_sims |-> in.n_sims,
                     random_seed |-> in.random_seed], g)}})

(* main.py 200-204: predictions is a dict keyed by ticker; returned is the *)
(* history of what predict_position returned, call by call                 *)
RECURSIVE PredictLoop(_, _, _, _, _)
PredictLoop(positions, in, predictions, returned, g) ==
    IF positions = << >>
    THEN [raised |-> FALSE, predictions |-> predictions, returned |-> returned, g |-> g]
    ELSE The({IF p.raised
              THEN [raised |-> TRUE, predictions |-> << >>, returned |-> << >>, g |-> p.g]
              ELSE PredictLoop(Tail(positions), in,
                               Put(predictions, Head(positions).ticker,
                                   [expected_price |-> p.expected_price,
                                    expected_return_pct |-> p.expected_return_pct]),
                               Append(returned,
                                      [expected_price |-> p.expected_price,
                                       expected_return_pct |-> p.expected_return_pct]),
                               p.g) :
              p \in {predict_position(Head(positions), in, g)}})

(* shares * expected_price, shares being a plain number *)
XMulConst(c, x) == XMulMono(x, IF E0 \in DOMAIN c THEN c[E0] ELSE R0, E0)

(* main.py 207-211 *)
RECURSIVE PredictedValue(_, _)
PredictedValue(positions, predictions) ==
    IF positions = << >> THEN XZero
    ELSE XAdd(XMulConst(shares(Head(positions)),
                        predictions[Head(positions).ticker].expected_price),
              PredictedValue(Tail(positions), predictions))

(* main.py 213-215 *)
PredictedReturnPct(predicted_portfolio_value, total_value) ==
    IF total_value > 0
    THEN XAdd(XMulMono(predicted_portfolio_value, Rat(100, total_value), E0), XNum(-100))
    ELSE XZero

(* sorted(positions_list, key=lambda p: p.return_pct, reverse=True) *)
RECURSIVE InsertByReturn(_, _)
InsertByReturn(s, p) ==
    IF s = << >> THEN <<p>>
    ELSE IF s[Len(s)].return_pct >= p.return_pct THEN Append(s, p)
    ELSE Append(InsertByReturn(SubSeq(s, 1, Len(s) - 1), p), s[Len(s)])

RECURSIVE SortedByReturn(_)
SortedByReturn(positions) ==
    IF positions = << >> THEN << >>
    ELSE InsertByReturn(SortedByReturn(SubSeq(positions, 1, Len(positions) - 1)),
                        positions[Len(positions)])

TickerReturns(positions) ==
    [i \in DOMAIN positions |-> <<positions[i].ticker, positions[i].return_pct>>]

(* main.py 190-225 *)
analyse_portfolio(in, g) ==
    LET summary == portfolio_summary([positions |-> in.positions, one_shot |-> FALSE])
        sorted_by_return == SortedByReturn(in.positions)
        n == Len(sorted_by_return)
    IN  The({[g |-> r.g,
              res |-> IF r.raised
                      THEN [raised |-> TRUE]
                      ELSE [raised |-> FALSE,
                            total_value |-> summary.total_value,
                            weighted_return_pct |-> summary.weighted_return_pct,
                            predicted_portfolio_value |->
                                PredictedValue(in.positions, r.predictions),
                            predicted_portfolio_return_pct |->
                                PredictedReturnPct(
                                    PredictedValue(in.positions, r.predictions),
                                    summary.total_value),
                            predictions |-> r.predictions,
                            returned |-> r.returned,
                            top_performers |->
                                TickerReturns(SubSeq(sorted_by_return, 1, Min(5, n))),
                            laggards |->
                                TickerReturns(SubSeq(sorted_by_return, Max(1, n - 4), n))]] :
             r \in {PredictLoop(in.positions, in, << >>, << >>, g)}})

(* ------------------------------------------------------- percentile bands *)
Column(table, k) == [i \in 1..Len(table) |-> table[i][k]]

(* linear interpolation at virtual index q/100*(n-1) of an ordered column *)
Lerp(a, q) ==
    LET n == Len(a)
        lo == (q * (n - 1)) \div 100
        hi == Min(lo + 1, n - 1)
        gamma == Rat(q * (n - 1) - 100 * lo, 100)
    IN  RAdd(RInt(a[lo + 1]), RMul(gamma, RInt(a[hi + 1] - a[lo + 1])))

PercentileUnsorted(col, q) == Lerp(col, q)

Percentile(col, q) == Lerp(SortSeq(col, LAMBDA x, y : x < y), q)

Bands == <<5, 25, 50, 75, 95>>

(* app.py 372-377 *)
percentile_bands(table) ==
    [raised |-> FALSE,
     bands |-> [k \in 1..Len(table[1]) |->
                  [b \in 1..Len(Bands) |-> Percentile(Column(table, k), Bands[b])]]]

(* ------------------------------------------------ dashboard simulation cache *)
(* session.sims is the part of st.session_state holding "<view>_sim_<hash>" *)
(* entries, session.cache_data the st.cache_data store of                   *)
(* simulate_portfolio_growth_over_time_cached; runs, served, clicks and     *)
(* added (the clicks on Add Positions) are history.  A hash is identified   *)
(* with the tuple it is computed from.                                      *)
NoSession ==
    [sims |-> << >>, cache_data |-> << >>,
     whatif_set |-> FALSE, whatif_positions |-> << >>, whatif_dca_schedule |-> << >>,
     runs |-> << >>, served |-> << >>, done |-> {}, refreshed |-> FALSE,
     expired |-> FALSE, clicks |-> 0, added |-> << >>]

NoWidgets ==
    [view_mode |-> "none", sigma |-> 0, days |-> 0, n_sims |-> 0, random_seed |-> 0,
     positions |-> << >>, dca_schedule |-> << >>]

TickerOrder == <<"A", "B">>

SortedTickers(T) ==
    LET idx == {i \in DOMAIN TickerOrder : TickerOrder[i] \in T}
        nth(k) == CHOOSE i \in idx : Cardinality({j \in idx : j < i}) = k - 1
    IN  [k \in 1..Cardinality(idx) |-> TickerOrder[nth(k)]]

PyStr(x) == [type |-> "str", val |-> x]

PyNum(x) == [type |-> "number", val |-> x]

PyDict(x) == [type |-> "dict", val |-> x]

(* tuple(sorted(dca_schedule.items())) if dca_schedule else None *)
SortedItems(dca_schedule) ==
    IF DOMAIN dca_schedule = {} THEN PyNone
    ELSE LET ts == SortedTickers(DOMAIN dca_schedule)
         IN  [k \in DOMAIN ts |-> <<PyStr(ts[k]), PyDict(dca_schedule[ts[k]])>>]

(* app.py 1435-1441: sorted (ticker, amount, frequency_days) triples, or None *)
SortedTriples(dca_schedule) ==
    IF DOMAIN dca_schedule = {} THEN PyNone
    ELSE LET ts == SortedTickers(DOMAIN dca_schedule)
         IN  [k \in DOMAIN ts |-> <<PyStr(ts[k]), PyNum(dca_schedule[ts[k]].amount),
                                     PyNum(dca_schedule[ts[k]].frequency_days)>>]

PositionsTuple(positions) ==
    [i \in DOMAIN positions |->
        <<positions[i].ticker, positions[i].value, positions[i].return_pct,
          positions[i].current_price>>]

(* hash() of the key tuple: TypeError when an element holds a dict *)
Unhashable(dca_tuple) ==
    \E i \in DOMAIN dca_tuple : \E j \in DOMAIN dca_tuple[i] : dca_tuple[i][j].type = "dict"

CacheHash(positions_tuple, sigma, days, n_sims, random_seed, dca_tuple) ==
    IF Unhashable(dca_tuple)
    THEN [raised |-> TRUE, hash |-> << >>]
    ELSE [raised |-> FALSE,
          hash |-> <<positions_tuple, sigma, days, n_sims, random_seed, dca_tuple>>]

(* app.py 1001-1004, 1055-1060 *)
BaseKey(prefix, positions, sigma, days, n_sims, random_seed, dca_schedule) ==
    LET h == CacheHash(PositionsTuple(positions), sigma, days, n_sims, random_seed,
                       SortedItems(dca_schedule))
    IN  [raised |-> h.raised, key |-> <<prefix, h.hash>>]

(* app.py 1433-1443 *)
WhatIfKey(prefix, positions, sigma, days, n_sims, random_seed, dca_schedule) ==
    LET h == CacheHash(PositionsTuple(positions), sigma, days, n_sims, random_seed,
                       SortedTriples(dca_schedule))
    IN  [raised |-> h.raised, key |-> <<prefix, h.hash>>]

ViewKey(view, positions, sigma, days, n_sims, random_seed, dca_schedule) ==
    IF view = "whatif"
    THEN WhatIfKey("whatif_sim_", positions, sigma, days, n_sims, random_seed, dca_schedule)
    ELSE BaseKey(IF view = "base" THEN "base_sim_"
                 ELSE IF view = "conservative" THEN "conservative_sim_"
                 ELSE "aggressive_sim_",
                 positions, sigma, days, n_sims, random_seed, dca_schedule)

PositionsData(positions) ==
    [i \in DOMAIN positions |->
        [ticker |-> positions[i].ticker, value |-> positions[i].value,
         return_pct |-> positions[i].return_pct,
         current_price |-> positions[i].current_price]]

(* dict(dca_schedule) if dca_schedule else None, read back by `or {}` *)
DictOfItems(items) ==
    [t \in {items[i][1].val : i \in DOMAIN items} |->
        (items[CHOOSE i \in DOMAIN items : items[i][1].val = t][2]).val]

(* app.py 321-359: the st.cache_data wrapper around the simulator *)
simulate_portfolio_growth_over_time(S, g, positions, sigma, days, n_sims, random_seed, dca_schedule) ==
    LET positions_data == PositionsData(positions)
        dca_tuple == SortedItems(dca_schedule)
        ck == <<positions_data, sigma, days, n_sims, random_seed, dca_tuple>>
        in == [positions_data |-> positions_data, sigma |-> sigma, days |-> days,
               n_sims |-> n_sims, random_seed |-> random_seed,
               dca_schedule |-> DictOfItems(dca_tuple)]
    IN  IF ck \in DOMAIN S.cache_data
        THEN [S |-> S, g |-> g, res |-> S.cache_data[ck], how |-> "cache_data", in |-> in]
        ELSE The({[S |-> [S EXCEPT !.cache_data = Put(@, ck, r.res)],
                   g |-> r.g, res |-> r.res, how |-> "run", in |-> in] :
                  r \in {SimulateInternal(in, g)}})

(* app.py 1006-1021, 1063-1090, 1445-1458: session_state lookup of one view;  *)
(* tp is the checkpoint sequence stored with the table (the base one for the *)
(* two scenarios)                                                            *)
Lookup(S, g, view, positions, sigma, days, n_sims, random_seed, dca_schedule, tp) ==
    LET k == ViewKey(view, positions, sigma, days, n_sims, random_seed, dca_schedule)
        req == [view |-> view, key |-> k.key,
                again |-> <<view, PositionsData(positions), sigma, days, n_sims,
                            random_seed, dca_schedule>> \in S.done,
                in |-> [positions_data |-> PositionsData(positions), sigma |-> sigma,
                        days |-> days, n_sims |-> n_sims, random_seed |-> random_seed,
                        dca_schedule |-> dca_schedule]]
    IN  IF k.raised
        THEN [S |-> [S EXCEPT !.served = Append(@, req @@ [how |-> "raised", res |-> << >>])],
              g |-> g, raised |-> TRUE, res |-> << >>]
        ELSE IF k.key \in DOMAIN S.sims
        THEN [S |-> [S EXCEPT !.served =
                        Append(@, req @@ [how |-> "session_state", res |-> S.sims[k.key]]),
                              !.done = @ \cup {<<view, req.in.positions_data, sigma, days,
                                                 n_sims, random_seed, dca_schedule>>}],
              g |-> g, raised |-> FALSE, res |-> S.sims[k.key]]
        ELSE The({[S |-> [r.S EXCEPT
                            !.sims = Put(@, k.key, r.stored),
                            !.served = Append(@, req @@ [how |-> r.how, res |-> r.stored]),
                            !.done = @ \cup {<<view, req.in.positions_data, sigma, days,
                                               n_sims, random_seed, dca_schedule>>},
                            !.runs = IF r.how # "run" THEN @
                                     ELSE Put(@, <<view, r.in>>,
                                              IF <<view, r.in>> \in DOMAIN @
                                              THEN @[<<view, r.in>>] + 1 ELSE 1)],
                   g |-> r.g, raised |-> FALSE, res |-> r.stored] :
                  r \in {[c EXCEPT !.stored = IF view \in {"conservative", "aggressive"}
                                              THEN [c.res EXCEPT !.time_points = tp]
                                              ELSE c.res] :
                         c \in {[stored |-> << >>] @@
                                simulate_portfolio_growth_over_time(
                                    S, g, positions, sigma, days, n_sims, random_seed,
                                    dca_schedule)}}})

(* main.py 199-204: analyse_portfolio predicts every position with the seed *)
RECURSIVE AnalyseRng(_, _, _)
AnalyseRng(positions, w, g) ==
    IF positions = << >> THEN g
    ELSE AnalyseRng(Tail(positions), w,
                    simulate_gbm_price([current_price |-> Head(positions).current_price,
                                        mu |-> Head(positions).return_pct,
                                        sigma |-> w.sigma, days |-> w.days,
                                        n_sims |-> w.n_sims,
                                        random_seed |-> w.random_seed], g).g)

WhatIfObjects(S) ==
    [i \in DOMAIN S.whatif_positions |->
        Position(S.whatif_positions[i].ticker, S.whatif_positions[i].value,
                 S.whatif_positions[i].return_pct, S.whatif_positions[i].current_price)]

(* app.py 1123-1137 *)
WhatIfInit(S, w) ==
    IF S.whatif_set THEN S
    ELSE [S EXCEPT !.whatif_set = TRUE,
                   !.whatif_positions =
                       [i \in DOMAIN w.positions |->
                           [ticker |-> w.positions[i].ticker,
                            shares |-> shares(w.positions[i]),
                            value |-> w.positions[i].value,
                            return_pct |-> w.positions[i].return_pct,
                            current_price |-> w.positions[i].current_price]],
                   !.whatif_dca_schedule = w.dca_schedule]

(* app.py 902-1021: summary, analysis and the base simulation of tab 1 *)
ScriptBase(S, g, w) ==
    Lookup([S EXCEPT !.served = << >>], AnalyseRng(w.positions, w, g), "base",
           w.positions, w.sigma, w.days, w.n_sims, w.random_seed, w.dca_schedule, << >>)

(* app.py 1023-1470: the selected view of tab 1 *)
ScriptView(b, w) ==
    IF b.raised THEN b
    ELSE IF w.view_mode = "Compare Scenarios"
    THEN The({IF c.raised THEN c
              ELSE Lookup(c.S, c.g, "aggressive", w.positions, 25, w.days, w.n_sims,
                          w.random_seed, w.dca_schedule, b.res.time_points) :
              c \in {Lookup(b.S, b.g, "conservative", w.positions, 10, w.days, w.n_sims,
                            w.random_seed, w.dca_schedule, b.res.time_points)}})
    ELSE IF w.view_mode = "What-If Analysis"
    THEN LET S1 == WhatIfInit(b.S, w)
         IN  IF S1.whatif_positions = << >>
             THEN [b EXCEPT !.S = S1]
             ELSE Lookup(S1, b.g, "whatif", WhatIfObjects(S1), w.sigma, w.days, w.n_sims,
                         w.random_seed, S1.whatif_dca_schedule, << >>)
    ELSE b

(* one run of main() with widget state w *)
ScriptBody(S, g, w) == ScriptView(ScriptBase(S, g, w), w)

SessionKeysToRemoveAll(keys) == keys

(* app.py 715: only the watchlist_ entries of st.session_state are dropped *)
SessionKeysToRemove(keys) == {k \in keys : k[1] = "watchlist_"}

(* app.py 712-718 *)
RefreshOp(S) ==
    [S EXCEPT !.cache_data = << >>, !.refreshed = TRUE,
              !.sims = [k \in DOMAIN S.sims \ SessionKeysToRemove(DOMAIN S.sims) |-> S.sims[k]]]

(* ------------------------------------------------ what-if: Add Positions *)
(* a local name of main() is << >> while no statement of the script run   *)
(* has bound it, <<v>> once it is bound to v; a value that may be None is *)
(* written the same way                                                   *)
Unbound == << >>

Bound(v) == <<v>>

(* app.py 1280-1345: the names the form binds in a run with widget state f *)
FormLocals(f) ==
    [allocation_method |-> f.allocation_method,
     allocation_value |-> IF f.allocation_method = "$ Amount" THEN Bound(f.amount) ELSE Unbound,
     shares_per_ticker |-> IF f.allocation_method = "$ Amount" THEN Unbound ELSE Bound(f.count),
     use_watchlist_return |-> f.use_watchlist_return,
     manual_return |-> IF f.use_watchlist_return THEN Unbound ELSE Bound(f.manual_return),
     enable_dca_new |-> f.enable_dca_new,
     dca_amount_new |-> IF f.enable_dca_new THEN f.dca_amount ELSE 0,
     dca_freq_new |-> IF f.enable_dca_new THEN f.dca_freq ELSE 30]

(* app.py 1348-1354: a later row of a ticker replaces an earlier one *)
WatchMap(updated_watchlist) ==
    [t \in {updated_watchlist[i].ticker : i \in DOMAIN updated_watchlist} |->
        updated_watchlist[CHOOSE i \in DOMAIN updated_watchlist :
            /\ updated_watchlist[i].ticker = t
            /\ \A j \in DOMAIN updated_watchlist :
                  updated_watchlist[j].ticker = t => j <= i]]

(* app.py 1361-1367 *)
AddReturnPct(L, watch_item) ==
    IF L.use_watchlist_return /\ watch_item.total_return_pct # PyNone
    THEN watch_item.total_return_pct[1]
    ELSE IF L.use_watchlist_return THEN watch_item.today_return_pct * 252
    ELSE L.manual_return[1]

(* app.py 1370: the string the handler compares allocation_method with *)
AllocationTest(L) == L.allocation_method = "Dollar Amount ($)"

(* app.py 1370-1375: shares and position_value; reading a name that is *)
(* not bound raises UnboundLocalError                                   *)
AddAmounts(L, watch_item) ==
    IF AllocationTest(L)
    THEN IF L.allocation_value = Unbound
         THEN [raised |-> TRUE, shares |-> XZero, position_value |-> 0]
         ELSE [raised |-> FALSE,
               shares |-> IF watch_item.current_price > 0
                          THEN XMono(Rat(L.allocation_value[1], watch_item.current_price), E0)
                          ELSE XZero,
               position_value |-> L.allocation_value[1]]
    ELSE IF L.shares_per_ticker = Unbound
         THEN [raised |-> TRUE, shares |-> XZero, position_value |-> 0]
         ELSE [raised |-> FALSE,
               shares |-> XNum(L.shares_per_ticker[1]),
               position_value |-> L.shares_per_ticker[1] * watch_item.current_price]

(* app.py 1377-1398: one selected ticker that the watchlist knows *)
AddOne(S, L, ticker, watch_item, a) ==
    LET held == {i \in DOMAIN S.whatif_positions : S.whatif_positions[i].ticker = ticker}
        existing_idx == CHOOSE i \in held : \A j \in held : i <= j
        S1 == IF held # {}
              THEN [S EXCEPT !.whatif_positions[existing_idx].shares = XAdd(@, a.shares),
                             !.whatif_positions[existing_idx].value = @ + a.position_value]
              ELSE [S EXCEPT !.whatif_positions =
                        Append(@, [ticker |-> ticker, shares |-> a.shares,
                                   value |-> a.position_value,
                                   return_pct |-> AddReturnPct(L, watch_item),
                                   current_price |-> watch_item.current_price])]
    IN  IF L.enable_dca_new /\ L.dca_amount_new > 0
        THEN [S1 EXCEPT !.whatif_dca_schedule =
                 Put(@, ticker, [amount |-> L.dca_amount_new,
                                 frequency_days |-> L.dca_freq_new])]
        ELSE S1

(* app.py 1356-1398: the loop over the selected tickers *)
RECURSIVE AddSelected(_, _, _, _)
AddSelected(S, L, watch_map, selected_tickers) ==
    IF selected_tickers = << >> THEN [raised |-> FALSE, S |-> S]
    ELSE LET ticker == Head(selected_tickers)
             watch_item == WatchGet(watch_map, ticker)
         IN  IF watch_item = PyNone
             THEN AddSelected(S, L, watch_map, Tail(selected_tickers))
             ELSE LET a == AddAmounts(L, watch_item)
                  IN  IF a.raised THEN [raised |-> TRUE, S |-> S]
                      ELSE AddSelected(AddOne(S, L, ticker, watch_item, a), L, watch_map,
                                       Tail(selected_tickers))

(* app.py 1347-1399: the button handler, with the record of the click *)
AddPositionsOp(S, f, updated_watchlist) ==
    The({[raised |-> r.raised,
          S |-> [r.S EXCEPT !.added =
                    Append(@, [form |-> f, raised |-> r.raised,
                               watch_map |-> WatchMap(updated_watchlist),
                               before |-> S.whatif_positions,
                               after |-> r.S.whatif_positions])]] :
         r \in {AddSelected(S, FormLocals(f), WatchMap(updated_watchlist),
                            f.selected_tickers)}})

(* ----------------------------------------------------------------- inputs *)
PA == Position("A", 1000, 0, 100)

PA3 == Position("A", 7, 0, 3)

PAr == Position("A", 6, 10, 3)

PB == Position("B", 5, -5, 2)

PBz == Position("B", 4, 0, 0)

PZ == Position("A", 0, 10, 100)

PN == Position("B", -7, 20, 3)

Dca(a, f) == [amount |-> a, frequency_days |-> f]

NoDca == [t \in {} |-> Dca(0, 1)]

DcaFor(t, a, f) == [k \in {t} |-> Dca(a, f)]

DcaBoth == [t \in {"A", "B"} |-> IF t = "A" THEN Dca(5, 3) ELSE Dca(3, 1)]

PosLists == {<< >>, <<PA>>, <<PA3>>, <<PAr>>, <<PAr, PB>>, <<PA3, PBz>>, <<PA3, PAr>>}

DcaSchedules == {NoDca, DcaFor("A", 5, 1), DcaFor("A", 100, 2), DcaFor("B", 3, 2),
                 DcaBoth, DcaFor("A", 5, 0)}

(* seeded calls start from the seed; unseeded ones from every generator state *)
ShortInputs ==
    [positions_data : PosLists, sigma : {0, 10}, days : (-1)..MaxDays,
     n_sims : 0..MaxSims, random_seed : {1}, dca_schedule : DcaSchedules]
    \cup [positions_data : {<<PAr>>, <<PAr, PB>>, <<PA3, PAr>>}, sigma : {0, 10},
          days : (-1)..MaxDays, n_sims : 0..MaxSims, random_seed : {NoSeed},
          dca_schedule : {NoDca, DcaBoth}]

LongInputs ==
    [positions_data : {<<PA>>}, sigma : {0}, days : {0, 101, 152} \cup 49..MaxLongDays,
     n_sims : {1}, random_seed : {1},
     dca_schedule : {NoDca, DcaFor("A", 100, 30), DcaFor("A", 100, 50)}]

(* horizons up to the dashboard's order of magnitude, checkpoints only *)
CheckpointInputs ==
    [positions_data : {<<PA>>}, sigma : {0}, days : MaxLongDays..MaxCheckDays,
     n_sims : {0}, random_seed : {1}, dca_schedule : {NoDca}]

(* a short position and a withdrawal plan: values and amounts below zero *)
SignedInputs ==
    [positions_data : {<<PN>>, <<PAr, PN>>}, sigma : {10}, days : {2}, n_sims : {1},
     random_seed : {1}, dca_schedule : {NoDca, DcaFor("B", -5, 1), DcaFor("B", 3, 1)}]

PA6 == Position("A", 6, 0, 3)

PB4 == Position("B", 4, 0, 2)

(* nothing moves the prices: no volatility, no drift, no DCA *)
FlatInputs ==
    [positions_data : {<<PA3, PA6>>, <<PA3, PB4>>}, sigma : {0}, days : 0..MaxDays,
     n_sims : {1, 2}, random_seed : {1}, dca_schedule : {NoDca}]

PathInputs ==
    ShortInputs \cup LongInputs \cup CheckpointInputs \cup SignedInputs \cup FlatInputs

GbmInputs ==
    [current_price : {0, 3, 100}, mu : {-5, 0, 10}, sigma : {0, 10},
     days : (-1)..MaxDays, n_sims : 0..MaxSims, random_seed : {NoSeed, 1}]

SumPositions == {PA, PA3, PAr, PB, PBz, PZ, PN}

SummaryInputs ==
    [positions : {<< >>} \cup {<<p>> : p \in SumPositions}
                 \cup {<<p, q>> : p \in SumPositions, q \in SumPositions},
     one_shot : BOOLEAN]

PctValues == {0, 1, 4}

Tables ==
    UNION ({[1..n -> [1..1 -> PctValues]] : n \in 1..MaxRows}
           \cup {[1..n -> [1..2 -> PctValues]] : n \in 1..Min(2, MaxRows)})

TodayReturns == {-1000, -3, -2, -1, 0, 1, 9, 10, 11, 1000}

P0 == Position("B", 0, 5, 0)

PNp == Position("B", 4, 5, -2)

PA2 == Position("A", 6, 10, 2)

AnalysePosLists ==
    {<< >>, <<PAr>>, <<PB>>, <<PAr, PB>>, <<PB, PAr>>, <<PA3, PBz>>, <<PA3, PAr>>,
     <<PAr, PA2>>, <<PZ, P0>>, <<PAr, PNp>>, <<PA3, PN>>}

AnalyseInputs ==
    [positions : AnalysePosLists, sigma : {0, 10}, days : {0, 2}, n_sims : {1, 2},
     random_seed : {NoSeed, 1}]

WatchMaps ==
    {[t \in D |-> IF t = "MRK" THEN WatchItem("MRK", 3, 1) ELSE WatchItem("GEV", 100, 10)] :
        D \in SUBSET {"MRK", "GEV"}}

AddInputs ==
    [current_positions : {<< >>, <<PA>>, <<PAr, PB>>},
     watchlist_map : WatchMaps,
     tickers_to_add : UNION {[1..n -> {"MRK", "GEV", "XYZ"}] : n \in 0..MaxAdd},
     allocation_value : {0, 10}]

WatchItems ==
    {WatchItem("MRK", 3, 1), WatchItem("GEV", 3, 10), WatchItem("MOD", 3, 1000),
     WatchItem("NIL", 0, 5), WatchItem("FLAT", 100, 0), WatchItem("DOWN", 3, -3)}

WatchLists ==
    {w \in UNION {[1..n -> WatchItems] : n \in 0..MaxWatch} :
        \A i \in DOMAIN w : \A j \in DOMAIN w : w[i].ticker = w[j].ticker => i = j}

(* mean prices that are one exponential: one path, or no volatility *)
WatchInputs ==
    [watchlist : WatchLists, sigma : {0}, days : {2}, n_sims : {1, 2},
     random_seed : {NoSeed, 1}]
    \cup [watchlist : WatchLists, sigma : {10}, days : {2}, n_sims : {1},
          random_seed : {NoSeed, 1}]

(* ---------------------------------------------------------------- actions *)
Idle == sim.pc = "idle" /\ gbm.pc = "idle"

FrameInputs(s) ==
    [positions_data |-> s.positions, sigma |-> s.sigma, days |-> s.days,
     n_sims |-> s.n_sims, random_seed |-> s.random_seed,
     dca_schedule |-> s.dca_schedule]

GbmFrameInputs(s) ==
    [current_price |-> s.current_price, mu |-> s.mu, sigma |-> s.sigma,
     days |-> s.days, n_sims |-> s.n_sims, random_seed |-> s.random_seed]

SimCall(in, limit) ==
    /\ Idle /\ Len(hist) < limit
    /\ LET r == SimSetup(in, rng) IN sim' = r.s /\ rng' = r.g
    /\ closes' = << >> /\ buys' = << >> /\ valued' = << >>
    /\ UNCHANGED <<gbm, hist, session, widgets>>

PathStart ==
    /\ sim.pc = "path"
    /\ sim' = PathStartOp(sim)
    /\ IF sim.sim_idx < sim.n_sims
       THEN closes' = << >> /\ buys' = << >> /\ valued' = << >>
       ELSE UNCHANGED <<closes, buys, valued>>
    /\ UNCHANGED <<rng, gbm, hist, session, widgets>>

DcaStep ==
    /\ sim.pc = "day" /\ DayBlocks[sim.blk] = "dca"
    /\ sim' = DcaOp(sim)
    /\ buys' = (sim.day :> [t \in {u \in DOMAIN sim.current_shares : DcaDue(sim, u)} |->
                               shares_to_add(sim, t)]) @@ buys
    /\ UNCHANGED <<rng, gbm, hist, closes, valued, session, widgets>>

PriceStep ==
    /\ sim.pc = "day" /\ DayBlocks[sim.blk] = "price"
    /\ LET r == PriceOp(sim, rng)
       IN  /\ sim' = r.s /\ rng' = r.g
           /\ closes' = Append(closes, r.s.cumulative_log_returns)
    /\ valued' = (sim.day :> sim.current_shares) @@ valued
    /\ UNCHANGED <<gbm, hist, buys, session, widgets>>

RecordStep ==
    /\ sim.pc = "day" /\ DayBlocks[sim.blk] = "record"
    /\ sim' = RecordOp(sim)
    /\ UNCHANGED <<rng, gbm, hist, closes, buys, valued, session, widgets>>

PathEnd ==
    /\ sim.pc = "pathend"
    /\ sim' = PathEndOp(sim)
    /\ UNCHANGED <<rng, gbm, hist, closes, buys, valued, session, widgets>>

SimReturn ==
    /\ sim.pc \in {"return", "raised"}
    /\ hist' = Append(hist, [fn |-> "path", in |-> FrameInputs(sim), res |-> SimResult(sim)])
    /\ sim' = NoFrame
    /\ closes' = << >> /\ buys' = << >> /\ valued' = << >>
    /\ UNCHANGED <<rng, gbm, session, widgets>>

GbmCall(in, limit) ==
    /\ Idle /\ Len(hist) < limit
    /\ LET r == GbmSetup(in, rng) IN gbm' = r.s /\ rng' = r.g
    /\ UNCHANGED <<sim, hist, closes, buys, valued, session, widgets>>

GbmLoop ==
    /\ gbm.pc = "loop"
    /\ LET r == GbmIter(gbm, rng) IN gbm' = r.s /\ rng' = r.g
    /\ UNCHANGED <<sim, hist, closes, buys, valued, session, widgets>>

GbmReturn ==
    /\ gbm.pc \in {"return", "raised"}
    /\ hist' = Append(hist, [fn |-> "gbm", in |-> GbmFrameInputs(gbm), res |-> GbmResult(gbm)])
    /\ gbm' = NoGbm
    /\ UNCHANGED <<rng, sim, closes, buys, valued, session, widgets>>

SummaryCall(in, limit) ==
    /\ Idle /\ Len(hist) < limit
    /\ hist' = Append(hist, [fn |-> "portfolio_summary", in |-> in,
                             res |-> portfolio_summary(in)])
    /\ UNCHANGED <<rng, sim, gbm, closes, buys, valued, session, widgets>>

ChartCall(table, limit) ==
    /\ Idle /\ Len(hist) < limit
    /\ hist' = Append(hist, [fn |-> "percentile_bands", in |-> table,
                             res |-> percentile_bands(table)])
    /\ UNCHANGED <<rng, sim, gbm, closes, buys, valued, session, widgets>>

MuCall(today_return_pct, limit) ==
    /\ Idle /\ Len(hist) < limit
    /\ hist' = Append(hist, [fn |-> "compute_mu", in |-> today_return_pct,
                             res |-> compute_mu_from_today_return(today_return_pct)])
    /\ UNCHANGED <<rng, sim, gbm, closes, buys, valued, session, widgets>>

WatchlistCall(in, limit) ==
    /\ Idle /\ Len(hist) < limit
    /\ \E r \in {analyse_watchlist(in, rng)} :
          /\ hist' = Append(hist, [fn |-> "analyse_watchlist", in |-> in, res |-> r.res])
          /\ rng' = r.g
    /\ UNCHANGED <<sim, gbm, closes, buys, valued, session, widgets>>

AddCall(in, limit) ==
    /\ Idle /\ Len(hist) < limit
    /\ hist' = Append(hist, [fn |-> "add_positions", in |-> in, res |-> add_positions(in)])
    /\ UNCHANGED <<rng, sim, gbm, closes, buys, valued, session, widgets>>

AnalyseCall(in, limit) ==
    /\ Idle /\ Len(hist) < limit
    /\ \E r \in {analyse_portfolio(in, rng)} :
          /\ hist' = Append(hist, [fn |-> "analyse_portfolio", in |-> in, res |-> r.res])
          /\ rng' = r.g
    /\ UNCHANGED <<sim, gbm, closes, buys, valued, session, widgets>>

SimSteps == PathStart \/ DcaStep \/ PriceStep \/ RecordStep \/ PathEnd \/ SimReturn

GbmSteps == GbmLoop \/ GbmReturn

Init ==
    /\ rng \in 0..(RngMod - 1)
    /\ sim = NoFrame /\ gbm = NoGbm /\ hist = << >>
    /\ closes = << >> /\ buys = << >> /\ valued = << >>
    /\ session = NoSession /\ widgets = NoWidgets

(* ------------------------------------------------------ dashboard session *)
Views == {"Single Portfolio", "Compare Scenarios", "What-If Analysis"}

CacheWidgets ==
    [view_mode : Views, sigma : {10, 15}, days : {2}, n_sims : {1}, random_seed : {1},
     positions : {<<PAr>>}, dca_schedule : {NoDca, DcaFor("A", 5, 1)}]

Started == widgets.view_mode \in Views

Budget == session.clicks < MaxScriptRuns

(* a widget changes and the script reruns *)
ScriptRun(w) ==
    /\ Budget
    /\ widgets' = w
    /\ \E r \in {ScriptBody(session, rng, w)} :
          session' = [r.S EXCEPT !.clicks = @ + 1] /\ rng' = r.g
    /\ UNCHANGED <<sim, gbm, hist, closes, buys, valued>>

(* the Refresh Data button: clear, then st.rerun() *)
RefreshData ==
    /\ Started /\ Budget
    /\ \E r \in {ScriptBody(RefreshOp(session), rng, widgets)} :
          session' = [r.S EXCEPT !.clicks = @ + 1] /\ rng' = r.g
    /\ UNCHANGED <<widgets, sim, gbm, hist, closes, buys, valued>>

(* ttl=3600: an entry of the function cache expires *)
TtlExpire ==
    /\ \E k \in DOMAIN session.cache_data :
          session' = [session EXCEPT !.expired = TRUE, !.cache_data =
                         [x \in DOMAIN session.cache_data \ {k} |-> session.cache_data[x]]]
    /\ UNCHANGED <<rng, widgets, sim, gbm, hist, closes, buys, valued>>

(* app.py 1224-1230: the what-if row button that adds a DCA plan *)
WhatIfAddDca(t, dca_amount, dca_freq) ==
    /\ Started /\ Budget /\ widgets.view_mode = "What-If Analysis"
    /\ \E b \in {ScriptBase(session, rng, widgets)} :
       \E S1 \in {WhatIfInit(b.S, widgets)} :
          /\ ~b.raised
          /\ \E i \in DOMAIN S1.whatif_positions : S1.whatif_positions[i].ticker = t
          /\ t \notin DOMAIN S1.whatif_dca_schedule
          /\ dca_amount > 0
          /\ \E r \in {ScriptBody([S1 EXCEPT !.whatif_dca_schedule =
                                      Put(@, t, Dca(dca_amount, dca_freq))],
                                  b.g, widgets)} :
                session' = [r.S EXCEPT !.clicks = @ + 1] /\ rng' = r.g
    /\ UNCHANGED <<widgets, sim, gbm, hist, closes, buys, valued>>

(* app.py 1219-1222 *)
WhatIfRemoveDca(t) ==
    /\ Started /\ Budget /\ widgets.view_mode = "What-If Analysis"
    /\ \E b \in {ScriptBase(session, rng, widgets)} :
       \E S1 \in {WhatIfInit(b.S, widgets)} :
          /\ ~b.raised
          /\ \E i \in DOMAIN S1.whatif_positions : S1.whatif_positions[i].ticker = t
          /\ t \in DOMAIN S1.whatif_dca_schedule
          /\ \E r \in {ScriptBody([S1 EXCEPT !.whatif_dca_schedule =
                                      [x \in DOMAIN @ \ {t} |-> @[x]]],
                                  b.g, widgets)} :
                session' = [r.S EXCEPT !.clicks = @ + 1] /\ rng' = r.g
    /\ UNCHANGED <<widgets, sim, gbm, hist, closes, buys, valued>>

(* the rows st.session_state holds for the watchlist *)
UpdatedWatchlist ==
    <<[ticker |-> "A", current_price |-> 3, today_return_pct |-> 1,
       total_return_pct |-> Bound(10)],
      [ticker |-> "B", current_price |-> 2, today_return_pct |-> 1,
       total_return_pct |-> PyNone]>>

AddForm(method, tickers, use_return, dca) ==
    [allocation_method |-> method, amount |-> 10, count |-> 2,
     selected_tickers |-> tickers,
     use_watchlist_return |-> use_return, manual_return |-> 10,
     enable_dca_new |-> dca, dca_amount |-> 5, dca_freq |-> 30]

AddForms ==
    {AddForm(m, <<"B">>, TRUE, FALSE) : m \in {"$ Amount", "Shares"}}
    \cup {AddForm(m, <<"A", "B">>, FALSE, TRUE) : m \in {"$ Amount", "Shares"}}

(* app.py 1347-1400: the Add Positions button; st.rerun() after the loop *)
WhatIfAddPositions(f) ==
    /\ Started /\ Budget /\ widgets.view_mode = "What-If Analysis"
    /\ \E b \in {ScriptBase(session, rng, widgets)} :
       \E S1 \in {WhatIfInit(b.S, widgets)} :
          /\ ~b.raised
          /\ \E a \in {AddPositionsOp(S1, f, UpdatedWatchlist)} :
                IF a.raised
                THEN session' = [a.S EXCEPT !.clicks = @ + 1] /\ rng' = b.g
                ELSE \E r \in {ScriptBody(a.S, b.g, widgets)} :
                        session' = [r.S EXCEPT !.clicks = @ + 1] /\ rng' = r.g
    /\ UNCHANGED <<widgets, sim, gbm, hist, closes, buys, valued>>

NextCache ==
    \/ \E f \in AddForms : WhatIfAddPositions(f)
    \/ \E w \in CacheWidgets : ScriptRun(w)
    \/ RefreshData
    \/ TtlExpire
    \/ \E t \in Tickers : WhatIfAddDca(t, 5, 1)
    \/ \E t \in Tickers : WhatIfRemoveDca(t)

SpecCache == Init /\ [][NextCache]_vars

(* ------------------------------------------- one call of one core function *)
Next ==
    \/ \E in \in PathInputs : SimCall(in, 1)
    \/ SimSteps
    \/ \E in \in GbmInputs : GbmCall(in, 1)
    \/ GbmSteps
    \/ \E in \in SummaryInputs : SummaryCall(in, 1)
    \/ \E table \in Tables : ChartCall(table, 1)
    \/ \E t \in TodayReturns : MuCall(t, 1)
    \/ \E in \in WatchInputs : WatchlistCall(in, 1)
    \/ \E in \in AddInputs : AddCall(in, 1)
    \/ \E in \in AnalyseInputs : AnalyseCall(in, 1)

Spec == Init /\ [][Next]_vars

(* --------------------------- several simulator calls in one process *)
SeqPathInputs ==
    [positions_data : {<<PAr>>, <<PAr, PB>>}, sigma : {10}, days : {2}, n_sims : {1},
     random_seed : {NoSeed, 1, 2}, dca_schedule : {NoDca}]

SeqGbmInputs ==
    [current_price : {3}, mu : {10}, sigma : {10}, days : {2}, n_sims : {2},
     random_seed : {NoSeed, 1, 2}]

NextSeq ==
    \/ \E in \in SeqPathInputs : SimCall(in, MaxCalls)
    \/ SimSteps
    \/ \E in \in SeqGbmInputs : GbmCall(in, MaxCalls)
    \/ GbmSteps

SpecSeq == Init /\ [][NextSeq]_vars

(* ----------------------------------------------------------------- claims *)
SimActive == sim.pc \notin {"idle", "raised"}

(* C1: for every horizon days >= 0 the checkpoint sequence starts at 0,    *)
(* ends at days and has at most 51 entries.                                *)
C1_CheckpointBound ==
    (SimActive /\ sim.days >= 0) =>
        /\ sim.time_points[1] = 0
        /\ sim.time_points[Len(sim.time_points)] = sim.days
        /\ Len(sim.time_points) <= 51

OnePositionPlainDca(s) ==
    /\ Len(s.positions) = 1
    /\ s.positions[1].current_price > 0
    /\ s.positions[1].return_pct = 0
    /\ s.sigma = 0
    /\ DOMAIN s.dca_schedule = {s.positions[1].ticker}
    /\ s.dca_schedule[s.positions[1].ticker].frequency_days > 0

SpecInstance(s) ==
    /\ FrameInputs(s) = [positions_data |-> <<PA>>, sigma |-> 0, days |-> 60, n_sims |-> 1,
                         random_seed |-> 1, dca_schedule |-> DcaFor("A", 100, 30)]

(* C2: one position, price P > 0, value V, sigma = 0, return_pct = 0 and a *)
(* DCA of A every f days: every path records V + A*floor(d/f) at           *)
(* checkpoint day d; in the instance V=1000, P=100, A=100, f=30, days=60   *)
(* the buys are on days 30 and 60, 12 shares are held after day 60 and the *)
(* day-60 value is 1200.                                                   *)
C2_DcaValue ==
    /\ (sim.pc = "return" /\ OnePositionPlainDca(sim)) =>
          LET pos == sim.positions[1]
              cfg == sim.dca_schedule[pos.ticker]
          IN  \A i \in 1..sim.n_sims : \A k \in 1..Len(sim.time_points) :
                  sim.portfolio_paths[i][k] =
                      XNum(pos.value + cfg.amount * (sim.time_points[k] \div cfg.frequency_days))
    /\ (sim.pc = "return" /\ SpecInstance(sim)) =>
          /\ {d \in DOMAIN buys : \E t \in DOMAIN buys[d] : buys[d][t] # XZero} = {30, 60}
          /\ sim.current_shares["A"] = XNum(12)
          /\ sim.portfolio_paths[1][Len(sim.time_points)] = XNum(1200)

C2_Witness ==
    /\ sim.pc = "return" /\ SpecInstance(sim)
    /\ sim.time_points[Len(sim.time_points)] = 60

CloseOf(d, t) == IF d = 0 THEN E0 ELSE closes[d][t]

SharesBefore(d) == IF d = 1 THEN sim.position_shares ELSE valued[d - 1]

(* C3: on a DCA day d the DCA step runs before that day's draw: the shares *)
(* bought are amount / (current_price * exp(log-return through day d-1))   *)
(* and are counted in the value computed for day d.                        *)
C3_DcaBeforeDraw ==
    /\ \A d \in DOMAIN buys : \A t \in DOMAIN buys[d] :
          LET pos == sim.positions[FirstIdx(sim.positions, t)]
          IN  buys[d][t] =
                IF pos.current_price > 0
                THEN XMono(Rat(sim.dca_schedule[t].amount, pos.current_price),
                           ENeg(CloseOf(d - 1, t)))
                ELSE XZero
    /\ \A d \in DOMAIN valued :
          /\ d \in DOMAIN buys
          /\ \A t \in DOMAIN valued[d] :
                valued[d][t] =
                    XAdd(SharesBefore(d)[t],
                         IF t \in DOMAIN buys[d] THEN buys[d][t] ELSE XZero)

C3_Witness ==
    \E d \in DOMAIN valued : \E t \in DOMAIN buys[d] :
        /\ d >= 2
        /\ CloseOf(d - 1, t) # E0
        /\ CloseOf(d, t) # CloseOf(d - 1, t)
        /\ buys[d][t] # XZero

HistOf(fn) == {i \in DOMAIN hist : hist[i].fn = fn}

(* C7: for every table with n_sims >= 1 and every checkpoint column,       *)
(* p5 <= p25 <= p50 <= p75 <= p95.                                         *)
C7_BandOrder ==
    \A i \in HistOf("percentile_bands") :
        \A k \in DOMAIN hist[i].res.bands : \A b \in 1..(Len(Bands) - 1) :
            RLeq(hist[i].res.bands[k][b], hist[i].res.bands[k][b + 1])

C7_Witness ==
    \E i \in HistOf("percentile_bands") :
        /\ Len(hist[i].in) = 3
        /\ \E k \in DOMAIN hist[i].res.bands :
              /\ hist[i].in[1][k] > hist[i].in[2][k]
              /\ hist[i].res.bands[k][1] # hist[i].res.bands[k][5]

(* C8: simulate_gbm_price with days = 0 returns n_sims values all equal to *)
(* current_price, for every mu, sigma, n_sims >= 1 and seed.               *)
C8_ZeroDays ==
    \A i \in HistOf("gbm") :
        (hist[i].in.days = 0 /\ hist[i].in.n_sims >= 1) =>
            /\ ~hist[i].res.raised
            /\ Len(hist[i].res.prices_end) = hist[i].in.n_sims
            /\ \A k \in DOMAIN hist[i].res.prices_end :
                  hist[i].res.prices_end[k] = XNum(hist[i].in.current_price)

C8_Witness ==
    \E i \in HistOf("gbm") :
        /\ hist[i].in.days = 0 /\ hist[i].in.n_sims = 2
        /\ hist[i].in.sigma # 0 /\ hist[i].in.mu # 0 /\ hist[i].in.current_price = 100
        /\ hist[i].in.random_seed = NoSeed

(* C9: simulate_gbm_price with sigma = 0 and days > 0 returns n_sims       *)
(* identical values current_price*exp(mu*days/252), whatever the draws and *)
(* the seed.                                                               *)
C9_ZeroSigma ==
    \A i \in HistOf("gbm") :
        (hist[i].in.sigma = 0 /\ hist[i].in.days > 0) =>
            /\ ~hist[i].res.raised
            /\ Len(hist[i].res.prices_end) = hist[i].in.n_sims
            /\ \A k \in DOMAIN hist[i].res.prices_end :
                  hist[i].res.prices_end[k] =
                      XMono(RInt(hist[i].in.current_price),
                            <<200 * hist[i].in.mu * hist[i].in.days, 0>>)

C9_Witness ==
    \E i \in HistOf("gbm") :
        /\ hist[i].in.sigma = 0 /\ hist[i].in.days = 3 /\ hist[i].in.n_sims = 2
        /\ hist[i].in.mu = 10 /\ hist[i].in.current_price = 3
        /\ hist[i].res.prices_end[1] = XMono(RInt(3), <<6000, 0>>)

(* C10: portfolio_summary on positions whose total value is 0 (the empty   *)
(* list included) returns weighted_return_pct = 0 and raises no error.     *)
C10_ZeroTotal ==
    \A i \in HistOf("portfolio_summary") :
        SumValue(hist[i].in.positions) = 0 =>
            /\ ~hist[i].res.raised
            /\ hist[i].res.weighted_return_pct = R0

C10_Witness ==
    \E i \in HistOf("portfolio_summary") :
        /\ SumValue(hist[i].in.positions) = 0
        /\ Len(hist[i].in.positions) = 2
        /\ hist[i].in.positions[1].value # 0
        /\ ~hist[i].in.one_shot

(* C4: for both simulators, two invocations with the same non-None seed    *)
(* and the same inputs return identical output, whatever simulator calls   *)
(* (seeded or not) were made before or between them.                       *)
C4_SeededRepeatable ==
    \A i \in DOMAIN hist : \A j \in DOMAIN hist :
        (/\ hist[i].fn = hist[j].fn
         /\ hist[i].in = hist[j].in
         /\ hist[i].in.random_seed # NoSeed) => hist[i].res = hist[j].res

C4_Witness ==
    /\ Len(hist) = 3
    /\ hist[1].fn = "path" /\ hist[3].fn = "path"
    /\ hist[1].in = hist[3].in /\ hist[1].in.random_seed # NoSeed
    /\ hist[2].fn = "gbm" /\ hist[2].in.random_seed = NoSeed
    /\ ~hist[3].res.raised
    /\ hist[3].res.paths[1][3] # hist[3].res.paths[1][1]

C4_WitnessGbm ==
    /\ Len(hist) = 3
    /\ hist[1].fn = "gbm" /\ hist[3].fn = "gbm"
    /\ hist[1].in = hist[3].in /\ hist[1].in.random_seed # NoSeed
    /\ hist[2].fn = "path" /\ hist[2].in.random_seed = NoSeed

C6_KeyComputed ==
    \A i \in DOMAIN session.served :
        /\ session.served[i].how # "raised"
        /\ session.served[i].key[2][6] = SortedTriples(session.served[i].in.dca_schedule)

(* C11: compute_mu_from_today_return is non-decreasing in today_return_pct, *)
(* its result lies in [-0.05, 0.20] (here in percent: [-5, 20]), and it     *)
(* equals 2*today_return_pct/100 whenever that value is inside the          *)
(* interval; input 1000 gives 0.20.                                         *)
C11_MuClamped ==
    \A i \in HistOf("compute_mu") :
        /\ -5 <= hist[i].res /\ hist[i].res <= 20
        /\ (-5 <= 2 * hist[i].in /\ 2 * hist[i].in <= 20) => hist[i].res = 2 * hist[i].in
        /\ hist[i].in = 1000 => hist[i].res = 20
        /\ \A t \in TodayReturns :
              t <= hist[i].in => compute_mu_from_today_return(t) <= hist[i].res

C11_Witness ==
    \E i \in HistOf("compute_mu") : hist[i].in = 1000 /\ hist[i].res = 20

Injective(p) == \A i \in DOMAIN p : \A j \in DOMAIN p : p[i] = p[j] => i = j

(* C12: analyse_watchlist returns exactly one (ticker, expected_return_pct, *)
(* expected_price) entry per input WatchItem, in descending order of       *)
(* expected_return_pct, entries with equal expected_return_pct in input    *)
(* order.                                                                  *)
C12_RankedStable ==
    \A h \in HistOf("analyse_watchlist") :
        LET w == hist[h].in.watchlist
            out == hist[h].res.results
        IN  /\ ~hist[h].res.raised
            /\ Len(out) = Len(w)
            /\ \A i \in DOMAIN out : \A j \in DOMAIN out :
                  i < j => KeyLeq(out[j], out[i])
            /\ \E p \in [DOMAIN out -> DOMAIN w] :
                  /\ Injective(p)
                  /\ \A i \in DOMAIN out :
                        /\ out[i][1] = w[p[i]].ticker
                        /\ out[i][2] = ExpectedReturnPct(out[i][3], w[p[i]].current_price)
                  /\ \A i \in DOMAIN out : \A j \in DOMAIN out :
                        (i < j /\ out[i][2] = out[j][2]) => p[i] < p[j]

C12_Witness ==
    \E h \in HistOf("analyse_watchlist") :
        LET w == hist[h].in.watchlist
            out == hist[h].res.results
        IN  /\ Len(out) = 3
            /\ out[1][2] = out[2][2] /\ out[2][2] # out[3][2]
            /\ out[1][1] = w[2].ticker /\ out[2][1] = w[3].ticker /\ out[3][1] = w[1].ticker
            /\ hist[h].in.sigma = 10

Elements(s) == {s[i] : i \in DOMAIN s}

(* C13: add_positions called with tickers that are all absent from         *)
(* watchlist_map raises no error, leaves the current_positions list        *)
(* unchanged and returns a list equal to current_positions.                *)
C13_AbsentTickers ==
    \A h \in HistOf("add_positions") :
        Elements(hist[h].in.tickers_to_add) \cap DOMAIN hist[h].in.watchlist_map = {} =>
            /\ ~hist[h].res.raised
            /\ hist[h].res.current_positions = hist[h].in.current_positions
            /\ hist[h].res.new_positions = hist[h].in.current_positions

C13_Witness ==
    \E h \in HistOf("add_positions") :
        /\ Len(hist[h].in.tickers_to_add) = 2
        /\ Elements(hist[h].in.tickers_to_add) \cap DOMAIN hist[h].in.watchlist_map = {}
        /\ DOMAIN hist[h].in.watchlist_map # {}
        /\ Len(hist[h].in.current_positions) = 2
        /\ hist[h].res.new_positions = hist[h].in.current_positions

WithoutEntry(in, t) ==
    [in EXCEPT !.dca_schedule = [x \in DOMAIN in.dca_schedule \ {t} |-> in.dca_schedule[x]]]

AbsentEntries(in) ==
    {t \in DOMAIN in.dca_schedule :
        /\ in.dca_schedule[t].frequency_days > 0
        /\ \A i \in DOMAIN in.positions_data : in.positions_data[i].ticker # t}

(* C14: a DCA entry with frequency_days > 0 for a ticker that is not among *)
(* the positions is inert: for the same seed the call returns what the     *)
(* call without that entry returns (the same table and checkpoints, and an *)
(* error only if that call raises one).                                    *)
C14_AbsentDcaInert ==
    \A h \in HistOf("path") :
        hist[h].in.random_seed # NoSeed =>
            \A t \in AbsentEntries(hist[h].in) :
                hist[h].res = SimulateInternal(WithoutEntry(hist[h].in, t), 0).res

C14_Witness ==
    \E h \in HistOf("path") :
        /\ hist[h].in.random_seed # NoSeed
        /\ AbsentEntries(hist[h].in) = {"B"}
        /\ DOMAIN hist[h].in.dca_schedule = {"A", "B"}
        /\ hist[h].in.days = 3 /\ hist[h].in.sigma = 10
        /\ ~hist[h].res.raised
        /\ Len(hist[h].res.paths) = 2
        /\ hist[h].res.paths[1][4] # hist[h].res.paths[1][1]

(* C15: no division by current_price or total_value raises: shares is 0    *)
(* when current_price <= 0, expected_return_pct is 0 when current_price    *)
(* <= 0 (predict_position, analyse_watchlist), weighted_return_pct and     *)
(* predicted_portfolio_return_pct are 0 when total_value = 0, and the DCA  *)
(* step adds 0 shares when the simulated price is <= 0.                    *)
C15_GuardedDivisions ==
    /\ SimActive =>
          /\ \A t \in DOMAIN sim.position_shares :
                sim.positions[LastIdx(sim.positions, t)].current_price <= 0 =>
                    sim.position_shares[t] = XZero
          /\ \A d \in DOMAIN buys : \A t \in DOMAIN buys[d] :
                sim.positions[FirstIdx(sim.positions, t)].current_price <= 0 =>
                    buys[d][t] = XZero
    /\ (sim.pc = "raised" /\ sim.days >= 0) =>
          \E t \in DOMAIN sim.dca_schedule : sim.dca_schedule[t].frequency_days = 0
    /\ \A h \in HistOf("analyse_watchlist") :
          /\ ~hist[h].res.raised
          /\ \A i \in DOMAIN hist[h].res.results : \A j \in DOMAIN hist[h].in.watchlist :
                (/\ hist[h].in.watchlist[j].ticker = hist[h].res.results[i][1]
                 /\ hist[h].in.watchlist[j].current_price <= 0) =>
                    hist[h].res.results[i][2] = XZero
    /\ \A h \in HistOf("analyse_portfolio") :
          LET ps == hist[h].in.positions
          IN  /\ ~hist[h].res.raised
              /\ \A t \in TickersOf(ps) :
                    ps[LastIdx(ps, t)].current_price <= 0 =>
                        hist[h].res.predictions[t].expected_return_pct = XZero
              /\ SumValue(ps) = 0 =>
                    /\ hist[h].res.weighted_return_pct = R0
                    /\ hist[h].res.predicted_portfolio_return_pct = XZero
    /\ \A h \in HistOf("portfolio_summary") :
          /\ ~hist[h].res.raised
          /\ hist[h].res.total_value = 0 => hist[h].res.weighted_return_pct = R0

C15_Witness ==
    \E h \in HistOf("analyse_portfolio") :
        /\ hist[h].in.positions = <<PZ, P0>>
        /\ hist[h].in.sigma = 10 /\ hist[h].in.days = 2 /\ hist[h].in.n_sims = 2
        /\ hist[h].res.predictions["B"].expected_return_pct = XZero
        /\ hist[h].res.predictions["A"].expected_return_pct # XZero
        /\ hist[h].res.predicted_portfolio_return_pct = XZero

(* C16: for every days >= 0 the checkpoint sequence time_points is         *)
(* strictly increasing and every entry lies in 0..days (the final day is   *)
(* not duplicated).                                                        *)
C16_CheckpointsIncreasing ==
    (SimActive /\ sim.days >= 0) =>
        /\ \A k \in DOMAIN sim.time_points : sim.time_points[k] \in 0..sim.days
        /\ \A k \in 1..(Len(sim.time_points) - 1) :
              sim.time_points[k] < sim.time_points[k + 1]

C16_Witness ==
    /\ SimActive /\ sim.days = 152
    /\ Len(sim.time_points) = 52
    /\ sim.time_points[51] = 150 /\ sim.time_points[52] = 152

RECURSIVE SumSharesTimes(_, _)
SumSharesTimes(positions, returned) ==
    IF positions = << >> THEN XZero
    ELSE XAdd(XMulConst(shares(Head(positions)), Head(returned).expected_price),
              SumSharesTimes(Tail(positions), Tail(returned)))

(* C17: for every list of positions passed to analyse_portfolio, lists     *)
(* with a repeated ticker included, predicted_portfolio_value equals the   *)
(* sum over positions i of shares_i times the expected price predicted for *)
(* that same position i.                                                   *)
C17_PredictedValue ==
    \A h \in HistOf("analyse_portfolio") :
        ~hist[h].res.raised =>
            hist[h].res.predicted_portfolio_value =
                SumSharesTimes(hist[h].in.positions, hist[h].res.returned)

(* C18: for every Iterable of Position accepted by portfolio_summary,      *)
(* lists and one-shot iterators alike, with total value > 0: total_value   *)
(* is the sum of value_i and weighted_return_pct is                        *)
(* (sum of value_i*return_pct_i/100)/total_value*100.                      *)
C18_WeightedReturn ==
    \A h \in HistOf("portfolio_summary") :
        SumValue(hist[h].in.positions) > 0 =>
            /\ ~hist[h].res.raised
            /\ hist[h].res.total_value = SumValue(hist[h].in.positions)
            /\ hist[h].res.weighted_return_pct =
                   RMul(RDiv(SumReturnValue(hist[h].in.positions),
                             RInt(SumValue(hist[h].in.positions))), RInt(100))

ClosesPath == IF sim.pc \in {"path", "return"} THEN sim.sim_idx - 1 ELSE sim.sim_idx

DrawIndex(p, d, i) == p * sim.days * Len(sim.positions) + (d - 1) * Len(sim.positions) + i

RECURSIVE DrawnReturn(_, _, _, _)
DrawnReturn(p, d, t, i) ==
    IF i > Len(sim.positions) THEN E0
    ELSE EAdd(IF sim.positions[i].ticker = t
              THEN LogReturn(sim.drift_constants[t], sim.diffusion_stds[t],
                             Normal(sim.draws[DrawIndex(p, d, i)].g))
              ELSE E0,
              DrawnReturn(p, d, t, i + 1))

(* C19: in a seeded invocation all draws come from one stream, consumed in *)
(* the order path, day, position of the list; the DCA step consumes none,  *)
(* so n_sims*days*|positions| draws are made in all and the draw that      *)
(* moves a position's price on a day is the same whatever the DCA          *)
(* schedule.                                                               *)
C19_DrawOrder ==
    (SimActive /\ sim.random_seed # NoSeed) =>
        LET n == Len(sim.positions)
        IN  /\ \A k \in DOMAIN sim.draws :
                  /\ sim.draws[k].sim_idx = (k - 1) \div (sim.days * n)
                  /\ sim.draws[k].day = (((k - 1) \div n) % sim.days) + 1
                  /\ sim.draws[k].pos = ((k - 1) % n) + 1
                  /\ sim.draws[k].g = IF k = 1 THEN SeedState(sim.random_seed)
                                      ELSE Advance(sim.draws[k - 1].g)
            /\ rng = IF sim.draws = << >> THEN SeedState(sim.random_seed)
                     ELSE Advance(sim.draws[Len(sim.draws)].g)
            /\ sim.pc = "return" => Len(sim.draws) = sim.n_sims * sim.days * n
            /\ \A d \in DOMAIN closes : \A t \in DOMAIN closes[d] :
                  closes[d][t] = EAdd(CloseOf(d - 1, t), DrawnReturn(ClosesPath, d, t, 1))

C19_Witness ==
    /\ sim.pc = "return" /\ sim.random_seed # NoSeed
    /\ sim.n_sims = 2 /\ sim.days = 3 /\ sim.sigma = 10
    /\ sim.positions = <<PAr, PB>>
    /\ sim.dca_schedule = DcaBoth
    /\ Len(sim.draws) = 12
    /\ \E d \in DOMAIN buys : \E t \in DOMAIN buys[d] : buys[d][t] # XZero

DaysRecorded == IF sim.pc = "day" THEN sim.day - 1 ELSE sim.days

(* C20: for days >= 0 and n_sims >= 1 each path's row has one value per    *)
(* checkpoint: column 0 is the sum of position.value and each later        *)
(* checkpoint day's value, the one computed on that day, is recorded once, *)
(* in day order, so the row is as long as time_points; the values of the   *)
(* other days are not recorded.                                            *)
C20_RowPerCheckpoint ==
    /\ (sim.pc \in {"day", "pathend"} /\ sim.days >= 0) =>
          LET row == sim.portfolio_value_over_time
              due == {k \in DOMAIN sim.time_points :
                         k = 1 \/ sim.time_points[k] <= DaysRecorded}
          IN  /\ DOMAIN row = due
              /\ row[1] = XNum(SumValue(sim.positions))
              /\ \A k \in due \ {1} : row[k] = sim.day_values[sim.time_points[k]]
    /\ (sim.pc = "raised" /\ sim.days >= 0) =>
          \E t \in DOMAIN sim.dca_schedule : sim.dca_schedule[t].frequency_days = 0
    /\ (sim.pc \in {"path", "return"} /\ sim.days >= 0) =>
          \A i \in 1..sim.sim_idx :
              /\ Len(sim.portfolio_paths[i]) = Len(sim.time_points)
              /\ sim.portfolio_paths[i][1] = XNum(SumValue(sim.positions))
    /\ (sim.pc = "path" /\ sim.sim_idx >= 1) =>
          sim.portfolio_paths[sim.sim_idx] = sim.portfolio_value_over_time

C20_Witness ==
    /\ sim.pc = "pathend" /\ sim.days = 152
    /\ Len(sim.portfolio_value_over_time) = 52
    /\ sim.time_points[18] = 51
    /\ sim.day_values[50] # sim.day_values[49]
    /\ sim.portfolio_value_over_time[18] = sim.day_values[50]
    /\ sim.portfolio_value_over_time[17] = sim.day_values[48]
    /\ sim.portfolio_value_over_time[52] = sim.day_values[152]

XNonNeg(x) == \A e \in DOMAIN x : x[e][1] >= 0

XSub(x, y) == XAdd(x, XMulMono(y, RInt(-1), E0))

NonNegInputs(s) ==
    /\ \A i \in DOMAIN s.positions : s.positions[i].value >= 0
    /\ \A t \in DOMAIN s.dca_schedule : s.dca_schedule[t].amount >= 0

RECURSIVE BoughtThrough(_, _)
BoughtThrough(d, t) ==
    IF d = 0 THEN XZero
    ELSE XAdd(BoughtThrough(d - 1, t),
              IF d \in DOMAIN buys /\ t \in DOMAIN buys[d] THEN buys[d][t] ELSE XZero)

(* C21: with position values >= 0 and DCA amounts >= 0, in every state of  *)
(* every path each ticker's share count is >= 0 and not smaller on a day   *)
(* than on the day before; it starts at Position.shares and is that plus   *)
(* the DCA buys made so far in the path.                                   *)
C21_SharesMonotone ==
    (sim.pc \in {"day", "pathend"} /\ NonNegInputs(sim)) =>
        \A t \in DOMAIN sim.current_shares :
            /\ sim.position_shares[t] = shares(sim.positions[LastIdx(sim.positions, t)])
            /\ XNonNeg(sim.current_shares[t])
            /\ sim.current_shares[t] = XAdd(sim.position_shares[t], BoughtThrough(sim.days, t))
            /\ \A d \in DOMAIN valued :
                  /\ XNonNeg(valued[d][t])
                  /\ XNonNeg(XSub(valued[d][t], SharesBefore(d)[t]))

C21_Witness ==
    /\ sim.pc = "pathend" /\ NonNegInputs(sim) /\ sim.sim_idx = 1
    /\ sim.sigma = 10 /\ sim.days = 3
    /\ sim.positions = <<PAr, PB>> /\ sim.dca_schedule = DcaBoth
    /\ valued[1]["B"] # sim.position_shares["B"]
    /\ valued[2]["B"] # valued[1]["B"]
    /\ valued[3]["B"] # valued[2]["B"]
    /\ sim.current_shares["B"] = valued[3]["B"]

(* the generator state in which path p (1, 2, ...) of the running call began *)
PathStartG(p) ==
    IF sim.days * Len(sim.positions) = 0 THEN rng
    ELSE sim.draws[(p - 1) * sim.days * Len(sim.positions) + 1].g

OnePathFrom(g) ==
    SimulateInternal([FrameInputs(sim) EXCEPT !.n_sims = 1, !.random_seed = NoSeed], g)

(* C22: every path starts with cumulative log-return 0 and the initial     *)
(* Position.shares for every ticker, whatever the paths before it bought   *)
(* or accumulated; its row is the row a call of one path gives from the    *)
(* generator state the path started in.                                    *)
C22_PathsIndependent ==
    /\ (sim.pc = "day" /\ sim.day = 1 /\ sim.blk = 1) =>
          /\ DOMAIN sim.cumulative_log_returns = TickersOf(sim.positions)
          /\ DOMAIN sim.current_shares = TickersOf(sim.positions)
          /\ \A t \in TickersOf(sim.positions) :
                /\ sim.cumulative_log_returns[t] = E0
                /\ sim.current_shares[t] = shares(sim.positions[LastIdx(sim.positions, t)])
    /\ (sim.pc = "path" /\ sim.sim_idx >= 1) =>
          \A r \in {OnePathFrom(PathStartG(sim.sim_idx))} :
              /\ ~r.res.raised
              /\ sim.portfolio_paths[sim.sim_idx] = r.res.paths[1]
              /\ rng = r.g

C22_Witness ==
    /\ sim.pc = "path" /\ sim.sim_idx = 2
    /\ sim.sigma = 10 /\ sim.days = 3
    /\ sim.positions = <<PAr>> /\ sim.dca_schedule = DcaFor("A", 5, 1)
    /\ sim.current_shares # sim.position_shares
    /\ sim.cumulative_log_returns["A"] # E0
    /\ sim.portfolio_paths[1] # sim.portfolio_paths[2]
    /\ sim.portfolio_paths[2] = OnePathFrom(PathStartG(2)).res.paths[1]

Known(in) == SelectSeq(in.tickers_to_add, LAMBDA t : t \in DOMAIN in.watchlist_map)

(* C23: add_positions returns a new list: the original positions in their  *)
(* order, then one Position per occurrence in tickers_to_add of a ticker   *)
(* that is a key of watchlist_map, in request order, with value =          *)
(* allocation_value, return_pct = 0 and the watch item's price; the list   *)
(* passed in is left as it was.                                            *)
C23_AddedInOrder ==
    \A h \in HistOf("add_positions") :
        LET in == hist[h].in
            out == hist[h].res.new_positions
            n == Len(in.current_positions)
            w == Known(in)
        IN  /\ ~hist[h].res.raised
            /\ hist[h].res.current_positions = in.current_positions
            /\ Len(out) = n + Len(w)
            /\ SubSeq(out, 1, n) = in.current_positions
            /\ \A k \in 1..Len(w) :
                  /\ out[n + k].ticker = in.watchlist_map[w[k]].ticker
                  /\ out[n + k].value = in.allocation_value
                  /\ out[n + k].return_pct = 0
                  /\ out[n + k].current_price = in.watchlist_map[w[k]].current_price

C23_Witness ==
    \E h \in HistOf("add_positions") :
        /\ hist[h].in.tickers_to_add = <<"MRK", "XYZ", "MRK">>
        /\ DOMAIN hist[h].in.watchlist_map = {"MRK", "GEV"}
        /\ hist[h].in.current_positions = <<PAr, PB>>
        /\ hist[h].in.allocation_value = 10
        /\ hist[h].res.new_positions =
               <<PAr, PB, Position("MRK", 10, 0, 3), Position("MRK", 10, 0, 3)>>

Simulators == {"gbm", "path"}

(* C24 as stated: called with negative days or with n_sims = 0, either     *)
(* simulator returns a result and raises no error.                         *)
C24_SilentDegenerate ==
    \A h \in DOMAIN hist :
        (hist[h].fn \in Simulators /\ (hist[h].in.days < 0 \/ hist[h].in.n_sims = 0)) =>
            ~hist[h].res.raised

(* C24 as amended: neither simulator validates days or n_sims; with        *)
(* n_sims = 0 simulate_gbm_price returns an empty array for every days and *)
(* the path simulator an empty table with its checkpoints for days >= 0;   *)
(* with negative days the path simulator raises for every n_sims and       *)
(* simulate_gbm_price raises for n_sims >= 1.                              *)
C24_NoValidation ==
    /\ \A h \in HistOf("gbm") :
          /\ hist[h].in.n_sims = 0 =>
                ~hist[h].res.raised /\ hist[h].res.prices_end = << >>
          /\ (hist[h].in.days < 0 /\ hist[h].in.n_sims >= 1) => hist[h].res.raised
    /\ \A h \in HistOf("path") :
          /\ (hist[h].in.n_sims = 0 /\ hist[h].in.days >= 0) =>
                /\ ~hist[h].res.raised
                /\ hist[h].res.paths = << >>
                /\ hist[h].res.time_points = TimePoints(hist[h].in.days)
          /\ hist[h].in.days < 0 => hist[h].res.raised

C24_Witness ==
    \E h \in HistOf("gbm") :
        /\ hist[h].in.days = -1 /\ hist[h].in.n_sims = 2
        /\ hist[h].in.random_seed = NoSeed
        /\ hist[h].res.raised

(* the states the generator of a fresh process can be in *)
Entropy == 0..(RngMod - 1)

SimulatorCall(fn, in, g) ==
    IF fn = "gbm" THEN simulate_gbm_price(in, g) ELSE SimulateInternal(in, g)

(* what call k of the process returns when the calls i..k are made with    *)
(* the generator in state g before call i                                  *)
RECURSIVE OutputFrom(_, _, _)
OutputFrom(i, k, g) ==
    The({IF i = k THEN r.res ELSE OutputFrom(i + 1, k, r.g) :
         r \in {SimulatorCall(hist[i].fn, hist[i].in, g)}})

(* C25: the output of a call without a seed is not determined: the same    *)
(* calls with the same arguments give it different values for different    *)
(* states of the process's generator, also when a seeded call was made     *)
(* earlier in the process.                                                 *)
C25_UnseededNondeterministic ==
    \A k \in DOMAIN hist :
        hist[k].in.random_seed = NoSeed =>
            \E g1 \in Entropy : \E g2 \in Entropy :
                OutputFrom(1, k, g1) # OutputFrom(1, k, g2)

FlatMarket(s) ==
    /\ s.sigma = 0 /\ DOMAIN s.dca_schedule = {}
    /\ \A i \in DOMAIN s.positions :
          s.positions[i].return_pct = 0 /\ s.positions[i].current_price > 0

(* C26: with sigma = 0, return_pct = 0 for every position, positive prices *)
(* and no DCA, every checkpoint value of every path is the sum of          *)
(* position.value, for every position list, lists that hold the same       *)
(* ticker more than once included.                                         *)
C26_FlatValue ==
    (sim.pc \in {"path", "return"} /\ FlatMarket(sim)) =>
        \A i \in 1..sim.sim_idx : \A k \in DOMAIN sim.portfolio_paths[i] :
            sim.portfolio_paths[i][k] = XNum(SumValue(sim.positions))

DcaComparable(s) ==
    /\ s.random_seed # NoSeed /\ s.days >= 0
    /\ DOMAIN s.dca_schedule # {}
    /\ \A i \in DOMAIN s.positions : s.positions[i].current_price > 0
    /\ \A t \in DOMAIN s.dca_schedule : s.dca_schedule[t].amount >= 0

(* the frame in which the call of s without its DCA schedule returns *)
WithoutDca(s) ==
    The({SimRun(r.s, r.g).s :
         r \in {SimSetup([FrameInputs(s) EXCEPT !.dca_schedule = NoDca], 0)}})

(* cumulative log-return of ticker t over the draws k..last of frame ref *)
RECURSIVE CumFrom(_, _, _, _)
CumFrom(ref, t, k, last) ==
    IF k > last THEN E0
    ELSE EAdd(IF ref.positions[ref.draws[k].pos].ticker = t
              THEN LogReturn(ref.drift_constants[t], ref.diffusion_stds[t],
                             Normal(ref.draws[k].g))
              ELSE E0,
              CumFrom(ref, t, k + 1, last))

(* C27: for the same seed, positive prices and DCA amounts >= 0, the       *)
(* simulated price of every position on every day of every path is the one *)
(* of the call without the DCA schedule, and every checkpoint value of     *)
(* every path is >= the value the call without DCA records there.          *)
C27_DcaDominates ==
    (sim.pc \in {"pathend", "return"} /\ DcaComparable(sim)) =>
        \A ref \in {WithoutDca(sim)} :
            LET n == Len(sim.positions)
                first == ClosesPath * sim.days * n
            IN  /\ ref.pc = "return"
                /\ Len(sim.draws) <= Len(ref.draws)
                /\ sim.draws = SubSeq(ref.draws, 1, Len(sim.draws))
                /\ \A d \in DOMAIN closes : \A t \in DOMAIN closes[d] :
                      closes[d][t] = CumFrom(ref, t, first + 1, first + d * n)
                /\ \A i \in 1..sim.sim_idx : \A k \in DOMAIN sim.time_points :
                      XNonNeg(XSub(sim.portfolio_paths[i][k], ref.portfolio_paths[i][k]))

C27_Witness ==
    /\ sim.pc = "return" /\ DcaComparable(sim)
    /\ sim.n_sims = 2 /\ sim.days = 3 /\ sim.sigma = 10
    /\ sim.positions = <<PAr, PB>> /\ sim.dca_schedule = DcaBoth
    /\ sim.portfolio_paths[2][2] # WithoutDca(sim).portfolio_paths[2][2]
    /\ sim.portfolio_paths[2][4] # WithoutDca(sim).portfolio_paths[2][4]
    /\ WithoutDca(sim).portfolio_paths[2][4] # WithoutDca(sim).portfolio_paths[2][1]

OnePositionNoDca(in) ==
    /\ Len(in.positions_data) = 1
    /\ in.positions_data[1].current_price > 0
    /\ DOMAIN in.dca_schedule = {}
    /\ in.random_seed # NoSeed

GbmInputsOf(in) ==
    [current_price |-> in.positions_data[1].current_price,
     mu |-> in.positions_data[1].return_pct,
     sigma |-> in.sigma, days |-> in.days, n_sims |-> in.n_sims,
     random_seed |-> in.random_seed]

(* C28: one position with current_price > 0, no DCA, a seed: the value of  *)
(* path i at the final checkpoint is Position.shares times the i-th        *)
(* terminal price simulate_gbm_price returns for the same seed, sigma,     *)
(* days and n_sims with mu = return_pct/100.                               *)
C28_TerminalMatchesGbm ==
    \A h \in HistOf("path") :
        (OnePositionNoDca(hist[h].in) /\ ~hist[h].res.raised) =>
            \A r \in {simulate_gbm_price(GbmInputsOf(hist[h].in), 0)} :
                /\ ~r.res.raised
                /\ Len(r.res.prices_end) = Len(hist[h].res.paths)
                /\ \A i \in DOMAIN hist[h].res.paths :
                      hist[h].res.paths[i][Len(hist[h].res.time_points)] =
                          XMulConst(shares(hist[h].in.positions_data[1]),
                                    r.res.prices_end[i])

C28_Witness ==
    \E h \in HistOf("path") :
        /\ OnePositionNoDca(hist[h].in) /\ ~hist[h].res.raised
        /\ hist[h].in.positions_data = <<PAr>>
        /\ hist[h].in.sigma = 10 /\ hist[h].in.days = 3 /\ hist[h].in.n_sims = 2
        /\ hist[h].res.paths[1][4] # hist[h].res.paths[2][4]
        /\ hist[h].res.paths[2][4] # hist[h].res.paths[2][1]

Prediction(p) == [expected_price |-> p.expected_price,
                  expected_return_pct |-> p.expected_return_pct]

(* C29: with a seed and distinct tickers, the prediction analyse_portfolio *)
(* reports for a position is the one predict_position gives for that       *)
(* position alone with the same parameters, in whatever state the          *)
(* generator is: it depends neither on the other positions of the list nor *)
(* on their order.                                                         *)
C29_PredictionAlone ==
    \A h \in HistOf("analyse_portfolio") :
        LET in == hist[h].in
        IN  (/\ in.random_seed # NoSeed
             /\ Cardinality(TickersOf(in.positions)) = Len(in.positions)
             /\ ~hist[h].res.raised) =>
                /\ DOMAIN hist[h].res.predictions = TickersOf(in.positions)
                /\ \A i \in DOMAIN in.positions : \A g \in Entropy :
                      \A p \in {predict_position(in.positions[i], in, g)} :
                          /\ ~p.raised
                          /\ hist[h].res.predictions[in.positions[i].ticker] = Prediction(p)

C29_Witness ==
    \E h \in HistOf("analyse_portfolio") :
        /\ hist[h].in.random_seed # NoSeed
        /\ hist[h].in.positions = <<PB, PAr>>
        /\ hist[h].in.sigma = 10 /\ hist[h].in.days = 2 /\ hist[h].in.n_sims = 2
        /\ hist[h].res.predictions["A"].expected_return_pct # XZero
        /\ hist[h].res.predictions["B"].expected_return_pct # XZero
        /\ hist[h].res.predictions["A"] = Prediction(predict_position(PAr, hist[h].in, 0))

(* ------------------------------------------------------------------ C30 *)
(* the what-if entry of ticker t in a list of what-if positions *)
HeldShares(ps, t) ==
    IF \E i \in DOMAIN ps : ps[i].ticker = t
    THEN ps[CHOOSE i \in DOMAIN ps : ps[i].ticker = t].shares ELSE XZero

HeldValue(ps, t) ==
    IF \E i \in DOMAIN ps : ps[i].ticker = t
    THEN ps[CHOOSE i \in DOMAIN ps : ps[i].ticker = t].value ELSE 0

(* what the form promises for one selected ticker *)
StatedValue(f, item) ==
    IF f.allocation_method = "$ Amount" THEN f.amount ELSE f.count * item.current_price

StatedShares(f, item) ==
    IF f.allocation_method = "$ Amount"
    THEN IF item.current_price > 0 THEN XMono(Rat(f.amount, item.current_price), E0)
         ELSE XZero
    ELSE XNum(f.count)

AddedAsStated(a) ==
    /\ ~a.raised
    /\ \A k \in DOMAIN a.form.selected_tickers :
          LET t == a.form.selected_tickers[k]
          IN  /\ HeldValue(a.after, t) - HeldValue(a.before, t)
                    = StatedValue(a.form, a.watch_map[t])
              /\ XSub(HeldShares(a.after, t), HeldShares(a.before, t))
                    = StatedShares(a.form, a.watch_map[t])

(* C30: every click on Add Positions completes and gives each selected      *)
(* ticker what the form states: by "$ Amount" the value is the amount and   *)
(* the shares are amount / price (0 when the price is not positive), by     *)
(* "Shares" the shares are the entered count and the value is shares*price  *)
C30_AddCompletes ==
    \A i \in DOMAIN session.added : AddedAsStated(session.added[i])

====
